---- MODULE Spec2Model ----
(***************************************************************************)
(* WeatherAdvisorAgent: the validation checkers of the pipeline and the    *)
(* LoopAgents ("robust" stage wrappers) that run a stage and its checker.  *)
(*                                                                         *)
(* Python values are tagged records:                                       *)
(*   [t |-> "absent"]            key missing from session.state            *)
(*   [t |-> "none"]              None                                      *)
(*   [t |-> "num",  n |-> i]     a number                                  *)
(*   [t |-> "nan"]               float('nan')                              *)
(*   [t |-> "str",  s |-> seq]   a string, as a sequence of text tokens    *)
(*   [t |-> "dict", d |-> f]     a dict, f a function from keys to values  *)
(*   [t |-> "list", l |-> seq]   a list                                    *)
(* Coordinates are integers in units of 0.00001 degree, so that the fifth  *)
(* decimal place exists and rounding to four places is a real operation.   *)
(***************************************************************************)
EXTENDS Integers, Sequences, FiniteSets, TLC

VARIABLES
  state,         \* session.state: key -> Python value
  event,         \* the last Event a checker yielded: escalate, logged verdict, raised
  given,         \* what the last agent was handed: a checker, the value under the
                 \* key it checks; a stage's callback, the output stored by output_key
  lastOp,        \* the agent that ran last
  loop,          \* the LoopAgent being run ("none" outside a loop)
  idx,           \* index in sub_agents of the next sub-agent to run
  times_looped,  \* LoopAgent's iteration counter
  runs,          \* executions of each sub-agent in the current invocation
  lastWrite,     \* the value the last stage execution left in its output key
  status,        \* "idle", "running", "escalated", "exhausted", "raised"
  reply,         \* what the last after_agent_callback returned
  written,       \* the output keys the stages have written, the latest written last
  geocode,       \* the geocode_place_name call in progress
  memory,        \* the TheophrastusMemoryBank instance
  calls,         \* the tool calls made so far, in order
  storage,       \* the file at storage_path of the memory bank
  banks,         \* the processes that share that file, each with its bank
  observability, \* the TheophrastusObservability instance and the open contexts
  func_tools     \* tools/func_tools.py: _last_snapshot and the sessions using it

\* the file-backed banks, the observability instance and the snapshot cache
sharedVars == <<storage, banks, observability, func_tools>>

\* the variables of the tools, which no agent or callback touches
toolVars == <<geocode, memory, calls, sharedVars>>

\* the variables of the agents, which no tool touches
agentVars == <<event, given, loop, idx, times_looped, runs, lastWrite, status, reply, written>>

vars == <<state, event, given, lastOp, loop, idx, times_looped, runs, lastWrite, status, reply,
          written,
          geocode, memory, calls, storage, banks, observability, func_tools>>

\* ------------------------------------------------------------------ bounds
MaxLen == 2

\* the most results the geocoding service sends back in the model
MaxApiResults == 3

\* ----------------------------------------------------------- Python values
Absent == [t |-> "absent"]
NoneV == [t |-> "none"]
NaN == [t |-> "nan"]
Num(n) == [t |-> "num", n |-> n]
Str(s) == [t |-> "str", s |-> s]
Dict(d) == [t |-> "dict", d |-> d]
List(l) == [t |-> "list", l |-> l]
Text(tok) == Str(<<tok>>)
EmptyDict == Dict(<<>>)
Bool(b) == [t |-> "bool", b |-> b]

isinstance(v, ty) == v.t = ty

\* Python truthiness ("if not x", "x or y") of the values used here.
truthy(v) ==
  CASE v.t = "absent" -> FALSE
    [] v.t = "none" -> FALSE
    [] v.t = "num" -> v.n # 0
    [] v.t = "nan" -> TRUE
    [] v.t = "bool" -> v.b
    [] v.t = "str" -> Len(v.s) > 0
    [] v.t = "dict" -> DOMAIN v.d # {}
    [] v.t = "list" -> Len(v.l) > 0

\* state.get(key): a missing key reads as None.
state_get(st, key) == IF st[key].t = "absent" THEN NoneV ELSE st[key]

\* dict.get(key) and dict.get(key, default)
dict_get_default(dv, key, default) == IF key \in DOMAIN dv.d THEN dv.d[key] ELSE default
dict_get(dv, key) == dict_get_default(dv, key, NoneV)

SeqsUpTo(S, n) == UNION {[1..k -> S] : k \in 0..n}

StateKeys == {"env_snapshot", "env_location_options", "env_risk_report", "env_advice_markdown"}

\* ------------------------------------------------------------- json.loads
\* JSON documents are single text tokens; JsonDoc gives what json.loads
\* returns for each.  Any other text (prose, a markdown fence) does not parse.
\* The tokens "fence_json" and "fence" are the markdown fences with and
\* without the json tag.
Whitespace == {" ", "\n"}

JsonDoc == [
  snap_valid     |-> Dict([current |-> Dict([temperature_c |-> Num(18), wind_speed_10m_ms |-> Num(3)])]),
  snap_null      |-> Dict([current |-> Dict([temperature_c |-> NoneV])]),
  snap_list      |-> List(<<Dict([current |-> Dict([temperature_c |-> Num(18)])])>>),
  risk_low       |-> Dict([overall_risk |-> Text("low"), rationale |-> Text("calm")]),
  risk_extreme   |-> Dict([overall_risk |-> Text("extreme")]),
  loc_list       |-> List(<<Dict([name |-> Text("B"), latitude |-> Num(1000000), longitude |-> Num(1000000)])>>),
  loc_wrapped    |-> Dict([locations |-> List(<<Dict([name |-> Text("B"), latitude |-> Num(1000000), longitude |-> Num(1000000)])>>)]),
  json_empty_list |-> List(<<>>),
  json_null      |-> NoneV,
  report_json    |-> Dict([overall_risk |-> Text("low"), rationale |-> Text("calm and clear all day")]) ]

RECURSIVE lstrip(_)
lstrip(s) == IF s # <<>> /\ Head(s) \in Whitespace THEN lstrip(Tail(s)) ELSE s

RECURSIVE rstrip(_)
rstrip(s) == IF s # <<>> /\ s[Len(s)] \in Whitespace THEN rstrip(SubSeq(s, 1, Len(s) - 1)) ELSE s

strip(s) == rstrip(lstrip(s))

\* json.loads(text): [ok |-> TRUE, v |-> value] or [ok |-> FALSE] (JSONDecodeError)
json_loads(s) ==
  LET body == strip(s) IN
  IF Len(body) = 1 /\ body[1] \in DOMAIN JsonDoc
  THEN [ok |-> TRUE, v |-> JsonDoc[body[1]]]
  ELSE [ok |-> FALSE, v |-> NoneV]

\* ------------------------------------------------- checker results (Events)
\* What one run of a checker does: the session state it leaves, the escalate
\* flag of the Event it yields (EventActions() leaves escalate unset, which
\* LoopAgent reads as false), the verdict it logs with log_validation, and
\* whether it raised instead of yielding.
CheckerResult(st, escalate, passed) ==
  [state |-> st, escalate |-> escalate, passed |-> passed, raised |-> FALSE]

CheckerRaised(st) ==
  [state |-> st, escalate |-> FALSE, passed |-> FALSE, raised |-> TRUE]

NoEvent == [escalate |-> FALSE, passed |-> FALSE, raised |-> FALSE]

\* What an after_agent_callback returns: None, Content(parts=[Part(text=...)])
\* with the text as a sequence of tokens, or an exception.
NoReply == [kind |-> "none", text |-> <<>>]
Reply(text) == [kind |-> "text", text |-> text]
ReplyRaised == [kind |-> "raised", text |-> <<>>]

\* No tool has been called: no geocoding in progress, an empty memory bank.
NoGeocode == [pc |-> "idle"]

EmptyMemoryBank == [user_preferences |-> <<>>, query_history |-> <<>>, location_memories |-> <<>>]

\* no file, no process, nothing traced, nothing cached
NoStorage ==
  [exists |-> FALSE, data |-> NoneV, length |-> 0, size |-> 0,
   persisted |-> {}, writer |-> "none", mutations |-> 0, starts |-> 0]
NoObservability == [traces |-> <<>>, active_spans |-> <<>>, contexts |-> <<>>, time |-> 1]
NoFuncTools == [last_snapshot |-> NoneV, sessions |-> <<>>]

SharedIdle ==
  /\ storage = NoStorage
  /\ banks = <<>>
  /\ observability = NoObservability
  /\ func_tools = NoFuncTools

ToolsIdle == geocode = NoGeocode /\ memory = EmptyMemoryBank /\ calls = <<>> /\ SharedIdle

\* No agent is running.
AgentsIdle ==
  /\ event = NoEvent
  /\ given = Absent
  /\ loop = "none"
  /\ idx = 0
  /\ times_looped = 0
  /\ runs = <<>>
  /\ lastWrite = Absent
  /\ status = "idle"
  /\ reply = NoReply
  /\ written = <<>>

EventOf(res) == [escalate |-> res.escalate, passed |-> res.passed, raised |-> res.raised]

\* ------------------------------------------------------ Snapshot Validator
SnapshotFields == {"temperature_c", "apparent_temperature_c", "wind_speed_10m_ms", "relative_humidity_percent"}

is_valid_snapshot(snap) ==
  IF ~isinstance(snap, "dict") THEN FALSE
  ELSE
    LET got == dict_get(snap, "current")
        current == IF truthy(got) THEN got ELSE EmptyDict
    IN IF ~isinstance(current, "dict") THEN FALSE
       ELSE \E f \in SnapshotFields : dict_get(current, f).t # "none"

\* A checker that removes a snapshot it found invalid.
EnvSnapshotValidationChecker_clearing(st) ==
  LET snapshot == state_get(st, "env_snapshot")
      is_valid == IF isinstance(snapshot, "dict") THEN is_valid_snapshot(snapshot)
                  ELSE FALSE
  IN CheckerResult(IF is_valid THEN st ELSE [st EXCEPT !["env_snapshot"] = NoneV],
                   is_valid, is_valid)

\* validation_checkers.py, the checker robust_env_data_agent imports: the list
\* branch counts the valid snapshots but never assigns is_valid.
EnvSnapshotValidationChecker(st) ==
  LET snapshot == state_get(st, "env_snapshot")
      is_valid == IF isinstance(snapshot, "dict") THEN is_valid_snapshot(snapshot)
                  ELSE FALSE
  IN CheckerResult(st, is_valid, is_valid)

\* A checker that stores the snapshot it parsed back into the session state.
EnvSnapshotValidationChecker_utils_writeback(st) ==
  LET raw == state_get(st, "env_snapshot")
      snapshot == IF isinstance(raw, "str")
                  THEN (IF json_loads(raw.s).ok THEN json_loads(raw.s).v ELSE NoneV)
                  ELSE raw
      is_valid == IF isinstance(snapshot, "dict") THEN is_valid_snapshot(snapshot)
                  ELSE IF isinstance(snapshot, "list")
                  THEN \E i \in 1..Len(snapshot.l) : is_valid_snapshot(snapshot.l[i])
                  ELSE FALSE
  IN CheckerResult([st EXCEPT !["env_snapshot"] = snapshot], is_valid, is_valid)

\* utils/validation_checkers.py: parses a string snapshot into a local
\* variable first, and a list passes when any entry is valid.
EnvSnapshotValidationChecker_utils(st) ==
  LET raw == state_get(st, "env_snapshot")
      snapshot == IF isinstance(raw, "str")
                  THEN (IF json_loads(raw.s).ok THEN json_loads(raw.s).v ELSE NoneV)
                  ELSE raw
      is_valid == IF isinstance(snapshot, "dict") THEN is_valid_snapshot(snapshot)
                  ELSE IF isinstance(snapshot, "list")
                  THEN \E i \in 1..Len(snapshot.l) : is_valid_snapshot(snapshot.l[i])
                  ELSE FALSE
  IN CheckerResult(st, is_valid, is_valid)

\* ---------------------------------------------------------- Risk Validator
valid_levels == {Text("low"), Text("moderate"), Text("medium"), Text("high"), Text("unknown")}

\* "x in valid_levels" hashes x: a list or a dict raises TypeError.
unhashable(v) == v.t \in {"list", "dict"}

\* validation_checkers.py: the verdict is the escalate flag.
EnvRiskValidationChecker(st) ==
  LET raw == state_get(st, "env_risk_report") IN
  IF ~truthy(raw) THEN CheckerResult(st, FALSE, FALSE)
  ELSE IF isinstance(raw, "str") /\ ~json_loads(raw.s).ok THEN CheckerResult(st, FALSE, FALSE)
  ELSE
    LET risk_report == IF isinstance(raw, "str") THEN json_loads(raw.s).v ELSE raw IN
    IF ~isinstance(risk_report, "dict") THEN CheckerResult(st, FALSE, FALSE)
    ELSE IF "overall_risk" \in DOMAIN risk_report.d /\ unhashable(risk_report.d["overall_risk"])
    THEN CheckerRaised(st)
    ELSE
      LET overall_valid == /\ "overall_risk" \in DOMAIN risk_report.d
                           /\ risk_report.d["overall_risk"] \in valid_levels
      IN CheckerResult(st, overall_valid, overall_valid)

\* utils/validation_checkers.py, the checker robust_env_risk_agent imports:
\* the verdict is logged, and the final Event carries EventActions() with no
\* escalate.
EnvRiskValidationChecker_utils(st) ==
  LET raw == state_get(st, "env_risk_report") IN
  IF ~truthy(raw) THEN CheckerResult(st, FALSE, FALSE)
  ELSE IF isinstance(raw, "str") /\ ~json_loads(raw.s).ok THEN CheckerResult(st, FALSE, FALSE)
  ELSE
    LET risk_report == IF isinstance(raw, "str") THEN json_loads(raw.s).v ELSE raw IN
    IF ~isinstance(risk_report, "dict") THEN CheckerResult(st, FALSE, FALSE)
    ELSE IF "overall_risk" \in DOMAIN risk_report.d /\ unhashable(risk_report.d["overall_risk"])
    THEN CheckerRaised(st)
    ELSE
      LET overall_valid == /\ "overall_risk" \in DOMAIN risk_report.d
                           /\ risk_report.d["overall_risk"] \in valid_levels
      IN CheckerResult(st, FALSE, overall_valid)

\* ------------------------------------------------ Location Validator/Cleaner
\* Degrees in units of 0.00001.
Deg(whole) == whole * 100000

\* float(x): [ok |-> TRUE, v |-> Num or NaN], or [ok |-> FALSE] for the
\* ValueError / TypeError the checker catches.
FloatText == [ten |-> Num(Deg(10)), nan |-> NaN]

float(v) ==
  CASE v.t = "num" -> [ok |-> TRUE, v |-> v]
    [] v.t = "nan" -> [ok |-> TRUE, v |-> v]
    [] v.t = "str" -> IF Len(strip(v.s)) = 1 /\ strip(v.s)[1] \in DOMAIN FloatText
                      THEN [ok |-> TRUE, v |-> FloatText[strip(v.s)[1]]]
                      ELSE [ok |-> FALSE, v |-> NoneV]
    [] OTHER -> [ok |-> FALSE, v |-> NoneV]

\* lo <= x <= hi on floats: every comparison with NaN is false.
between(lo, x, hi) == x.t = "num" /\ lo <= x.n /\ x.n <= hi

\* A range check that bounds the latitude by the longitude's limits.
in_range_lat_as_lon(lat_f, lon_f) ==
  ~(~between(Deg(-180), lat_f, Deg(180)) \/ ~between(Deg(-180), lon_f, Deg(180)))

\* not (-90 <= lat_f <= 90) or not (-180 <= lon_f <= 180)  ->  dropped
in_range(lat_f, lon_f) ==
  ~(~between(Deg(-90), lat_f, Deg(90)) \/ ~between(Deg(-180), lon_f, Deg(180)))

\* round(x, 4): to the nearest 0.0001 (the inputs used have no fifth decimal
\* of exactly 5, where the result depends on the binary representation).
round4(u) == ((u + 5) \div 10) * 10

\* A key built from the unrounded coordinates.
coord_key_unrounded(lat_f, lon_f) == <<lat_f.n, lon_f.n>>

coord_key(lat_f, lon_f) == <<round4(lat_f.n), round4(lon_f.n)>>

cleaned_entry(loc, lat_f, lon_f) ==
  LET name == dict_get(loc, "name") IN
  Dict([name      |-> IF truthy(name) THEN name ELSE Text("unknown"),
        latitude  |-> lat_f,
        longitude |-> lon_f,
        country   |-> dict_get(loc, "country"),
        admin1    |-> dict_get(loc, "admin1"),
        admin2    |-> dict_get(loc, "admin2"),
        activity  |-> dict_get(loc, "activity"),
        source    |-> dict_get_default(loc, "source", Text("atlas+geocode"))])

\* The loop that puts each kept entry in front of the ones kept before it.
RECURSIVE clean_locations_prepend(_, _, _, _)
clean_locations_prepend(locations, i, cleaned, seen_coords) ==
  IF i > Len(locations) THEN cleaned
  ELSE
    LET loc == locations[i]
        skip == clean_locations_prepend(locations, i + 1, cleaned, seen_coords)
    IN
    IF ~isinstance(loc, "dict") THEN skip
    ELSE
      LET lat == dict_get(loc, "latitude")
          lon == dict_get(loc, "longitude")
      IN
      IF lat.t = "none" \/ lon.t = "none" THEN skip
      ELSE IF ~float(lat).ok \/ ~float(lon).ok THEN skip
      ELSE IF ~in_range(float(lat).v, float(lon).v) THEN skip
      ELSE
        LET key == coord_key(float(lat).v, float(lon).v) IN
        IF key \in seen_coords THEN skip
        ELSE clean_locations_prepend(locations, i + 1,
               <<cleaned_entry(loc, float(lat).v, float(lon).v)>> \o cleaned,
               seen_coords \cup {key})

\* for loc in locations: ... ; returns the list cleaned
RECURSIVE clean_locations(_, _, _, _)
clean_locations(locations, i, cleaned, seen_coords) ==
  IF i > Len(locations) THEN cleaned
  ELSE
    LET loc == locations[i]
        skip == clean_locations(locations, i + 1, cleaned, seen_coords)
    IN
    IF ~isinstance(loc, "dict") THEN skip
    ELSE
      LET lat == dict_get(loc, "latitude")
          lon == dict_get(loc, "longitude")
      IN
      IF lat.t = "none" \/ lon.t = "none" THEN skip
      ELSE IF ~float(lat).ok \/ ~float(lon).ok THEN skip
      ELSE IF ~in_range(float(lat).v, float(lon).v) THEN skip
      ELSE
        LET key == coord_key(float(lat).v, float(lon).v) IN
        IF key \in seen_coords THEN skip
        ELSE clean_locations(locations, i + 1,
               Append(cleaned, cleaned_entry(loc, float(lat).v, float(lon).v)),
               seen_coords \cup {key})

\* A checker whose verdict looks at the list it was given.
EnvLocationGeoValidationChecker_passed_on_input(st) ==
  LET got == state_get(st, "env_location_options") IN
  IF ~truthy(got) THEN CheckerResult(st, TRUE, TRUE)
  ELSE
    LET locations == IF isinstance(got, "list") THEN got.l ELSE <<>>
        cleaned == clean_locations(locations, 1, <<>>, {})
        passed == Len(locations) > 0
    IN CheckerResult([st EXCEPT !["env_location_options"] = List(cleaned)], passed, passed)

EnvLocationGeoValidationChecker(st) ==
  LET got == state_get(st, "env_location_options") IN
  IF ~truthy(got) THEN CheckerResult(st, TRUE, TRUE)
  ELSE
    LET locations == IF isinstance(got, "list") THEN got.l ELSE <<>>
        cleaned == clean_locations(locations, 1, <<>>, {})
        passed == Len(cleaned) > 0
    IN CheckerResult([st EXCEPT !["env_location_options"] = List(cleaned)], passed, passed)

\* ----------------------------------------------------------- input values
\* "current" dicts: each of the four fields None or a number (0 included: a
\* zero reading is data), plus a dict without any of the keys.
Currents == {Dict(f) : f \in [SnapshotFields -> {NoneV, Num(0)}]} \cup {EmptyDict}

Snap(current) == Dict([current |-> current])

SnapshotDicts ==
  {Snap(c) : c \in Currents}
    \cup {Snap(Dict([temperature_c |-> Num(18), wind_speed_10m_ms |-> Num(3)])),
          Snap(NoneV), Snap(Text("n/a")), Dict([location_name |-> Text("Lima")]), EmptyDict}

SnapshotEntries ==
  {Snap(Dict([temperature_c |-> Num(18)])),
   Snap(Dict([temperature_c |-> NoneV, wind_speed_10m_ms |-> NoneV])),
   Snap(Dict([relative_humidity_percent |-> Num(0)])),
   Text("n/a")}

SnapshotValues ==
  {Absent, NoneV, Num(5), Text("snap_valid"), Text("snap_null"), Text("snap_list"),
   Text("no data"), Str(<<>>)}
    \cup SnapshotDicts
    \cup {List(l) : l \in SeqsUpTo(SnapshotEntries, MaxLen)}

OverallRiskValues ==
  valid_levels \cup {Text("extreme"), Text("LOW"), NoneV, Num(1), List(<<Text("low")>>),
                     Dict([level |-> Text("low")])}

RiskValues ==
  {Absent, NoneV, EmptyDict, Str(<<>>), Num(1), List(<<Text("low")>>),
   Text("risk_low"), Str(<<" ", "risk_low", "\n">>), Text("risk_extreme"),
   Text("json_empty_list"), Text("json_null"), Text("high risk today"),
   Str(<<"fence_json", "risk_low", "fence">>),
   Dict([heat_risk |-> Text("low"), rationale |-> Text("calm")])}
    \cup {Dict([overall_risk |-> o]) : o \in OverallRiskValues}
    \cup {Dict([overall_risk |-> o, heat_risk |-> Text("severe"), rationale |-> NoneV]) :
            o \in OverallRiskValues}

Loc(name, lat, lon) == Dict([name |-> name, latitude |-> lat, longitude |-> lon])

Latitudes ==
  {Num(Deg(10)), Num(Deg(10) + 4), Num(Deg(10) + 6), Num(Deg(91)), Num(Deg(90) + 1),
   Num(Deg(-90)), Text("ten"), Text("north"), NaN, NoneV, List(<<Num(Deg(10))>>)}

LocationEntries ==
  {Loc(Text("A"), lat, Num(Deg(10))) : lat \in Latitudes}
    \cup {Loc(Text("A"), Num(Deg(91)), Num(0)),
          Loc(Text("B"), Num(Deg(10)), Num(Deg(10))),
          Loc(Text("B"), Num(Deg(10)), Num(Deg(10) + 6)),
          Loc(Text("B"), Num(Deg(10)), Num(Deg(181))),
          Loc(NoneV, Num(Deg(10) + 4), Num(Deg(-180))),
          Dict([name |-> Text("C"), latitude |-> Num(Deg(10))]),
          Dict([name |-> Text("D"), latitude |-> Num(Deg(-90)), longitude |-> Text("ten"),
                country |-> Text("Mexico"), source |-> Text("discovery+geocode")]),
          Text("Yosemite")}

LocationValues ==
  {Absent, NoneV, EmptyDict, Str(<<>>), Text("no places found"),
   Dict([locations |-> List(<<Loc(Text("B"), Num(Deg(10)), Num(Deg(10)))>>)])}
    \cup {List(l) : l \in SeqsUpTo(LocationEntries, MaxLen)}

AdviceValues == {Absent, Text("## Advice")}

ValuesOf(key) ==
  CASE key = "env_snapshot" -> SnapshotValues
    [] key = "env_risk_report" -> RiskValues
    [] key = "env_location_options" -> LocationValues
    [] key = "env_advice_markdown" -> AdviceValues

EmptyState == [k \in StateKeys |-> Absent]

\* A session that already holds the output of an earlier, complete turn.
FilledState ==
  [env_snapshot |-> Snap(Dict([temperature_c |-> Num(18), wind_speed_10m_ms |-> Num(3)])),
   env_location_options |-> List(<<cleaned_entry(Loc(Text("B"), Num(Deg(10)), Num(Deg(10))),
                                                  Num(Deg(10)), Num(Deg(10)))>>),
   env_risk_report |-> Dict([overall_risk |-> Text("low")]),
   env_advice_markdown |-> Text("## Advice")]

\* ---------------------------------------------- the checkers on every input
ApplyChecker(name, key, res) ==
  /\ given' = state[key]
  /\ state' = res.state
  /\ event' = EventOf(res)
  /\ lastOp' = name
  /\ UNCHANGED <<loop, idx, times_looped, runs, lastWrite, status, reply, written, toolVars>>

RunSnapshotChecker == ApplyChecker("EnvSnapshotValidationChecker", "env_snapshot", EnvSnapshotValidationChecker(state))

RunSnapshotChecker_utils ==
  ApplyChecker("EnvSnapshotValidationChecker_utils", "env_snapshot",
               EnvSnapshotValidationChecker_utils(state))

RunRiskChecker ==
  ApplyChecker("EnvRiskValidationChecker", "env_risk_report", EnvRiskValidationChecker(state))

RunRiskChecker_utils ==
  ApplyChecker("EnvRiskValidationChecker_utils", "env_risk_report",
               EnvRiskValidationChecker_utils(state))

RunLocationChecker ==
  ApplyChecker("EnvLocationGeoValidationChecker", "env_location_options",
               EnvLocationGeoValidationChecker(state))

InitCheckers ==
  /\ \E key \in StateKeys \ {"env_advice_markdown"} :
       \E v \in ValuesOf(key) :
         \E background \in {EmptyState, FilledState} :
           state = [background EXCEPT ![key] = v]
  /\ event = NoEvent
  /\ given = Absent
  /\ lastOp = "none"
  /\ loop = "none"
  /\ idx = 0
  /\ times_looped = 0
  /\ runs = <<>>
  /\ lastWrite = Absent
  /\ status = "idle"
  /\ reply = NoReply
  /\ written = <<>>
  /\ ToolsIdle

NextCheckers ==
  \/ RunSnapshotChecker
  \/ RunSnapshotChecker_utils
  \/ RunRiskChecker
  \/ RunRiskChecker_utils
  \/ RunLocationChecker

SpecCheckers == InitCheckers /\ [][NextCheckers]_vars

\* ------------------------------------------------------- stage callbacks
\* re.sub(r'```json\s*', '', value) followed by re.sub(r'```\s*', '', value)
RECURSIVE replace_fences_re(_)
replace_fences_re(s) ==
  IF s = <<>> THEN <<>>
  ELSE IF Head(s) \in {"fence_json", "fence"} THEN replace_fences_re(lstrip(Tail(s)))
  ELSE IF Head(s) = "fence_markdown" THEN <<"markdown">> \o replace_fences_re(Tail(s))
  ELSE <<Head(s)>> \o replace_fences_re(Tail(s))

\* The fence stripping both callbacks of sub_agents/ do before json.loads:
\* strip(); drop a leading ```json or ```; drop a trailing ```; strip().
strip_fences(s) ==
  LET s0 == strip(s)
      s1 == IF s0 # <<>> /\ Head(s0) = "fence_json" THEN Tail(s0)
            ELSE IF s0 # <<>> /\ Head(s0) = "fence" THEN Tail(s0)
            ELSE s0
      s2 == IF s1 # <<>> /\ s1[Len(s1)] = "fence" THEN SubSeq(s1, 1, Len(s1) - 1) ELSE s1
  IN strip(s2)

\* sub_agents/atlas_env_location_agent.py: the state after the callback.
atlas_location_callback(st) ==
  LET locations == state_get(st, "env_location_options") IN
  IF isinstance(locations, "str") /\ ~json_loads(strip_fences(locations.s)).ok THEN st
  ELSE
    LET parsed == IF isinstance(locations, "str")
                  THEN json_loads(strip_fences(locations.s)).v
                  ELSE locations
    IN IF isinstance(parsed, "list") /\ truthy(parsed)
       THEN [st EXCEPT !["env_location_options"] = parsed]
       ELSE st

\* sub_agents/aether_env_risk_agent.py: the state after the callback.
aether_risk_callback(st) ==
  LET risk_report == state_get(st, "env_risk_report") IN
  IF isinstance(risk_report, "str") /\ ~json_loads(strip_fences(risk_report.s)).ok THEN st
  ELSE
    LET parsed == IF isinstance(risk_report, "str")
                  THEN json_loads(strip_fences(risk_report.s)).v
                  ELSE risk_report
    IN IF isinstance(parsed, "dict")
       THEN [st EXCEPT !["env_risk_report"] = parsed]
       ELSE st

\* utils/agent_utils.py, _parse_json_string: the fences are removed wherever
\* they are (a ```markdown fence leaves its tag), then json.loads.
\* Called on strings only.
parse_json_string(s) ==
  LET body == strip(replace_fences_re(s)) IN
  IF json_loads(body).ok THEN json_loads(body).v ELSE Str(body)

\* utils/agent_utils.py: the callback of the same name that no agent of
\* sub_agents/ uses; it unwraps {"locations": [...]}.
atlas_location_callback_utils(st) ==
  LET locations == state_get(st, "env_location_options") IN
  IF ~isinstance(locations, "str") THEN st
  ELSE
    LET parsed == parse_json_string(locations.s) IN
    IF isinstance(parsed, "list") THEN [st EXCEPT !["env_location_options"] = parsed]
    ELSE IF /\ isinstance(parsed, "dict") /\ "locations" \in DOMAIN parsed.d
            /\ isinstance(parsed.d["locations"], "list")
    THEN [st EXCEPT !["env_location_options"] = parsed.d["locations"]]
    ELSE st

\* ------------------------------------------------------------ LoopAgents
config_max_iterations == 3

robust_env_data_agent ==
  [sub_agents |-> <<"zephyr_env_data_agent", "env_snapshot_validation_checker">>,
   max_iterations |-> config_max_iterations]

robust_env_location_agent ==
  [sub_agents |-> <<"atlas_env_location_discovery_agent", "atlas_env_location_geocode_agent",
                    "location_geo_validation_agent">>,
   max_iterations |-> 2]

\* A risk loop that runs the writer before the classification.
robust_env_risk_agent_writer_first ==
  [sub_agents |-> <<"aurora_env_advice_writer", "aether_env_risk_agent",
                    "env_risk_validation_checker">>,
   max_iterations |-> 1]

robust_env_risk_agent ==
  [sub_agents |-> <<"aether_env_risk_agent", "env_risk_validation_checker",
                    "aurora_env_advice_writer">>,
   max_iterations |-> 1]

Loops == {"robust_env_data_agent", "robust_env_location_agent", "robust_env_risk_agent"}

LoopAgent(l) ==
  CASE l = "robust_env_data_agent" -> robust_env_data_agent
    [] l = "robust_env_location_agent" -> robust_env_location_agent
    [] l = "robust_env_risk_agent" -> robust_env_risk_agent

\* The key each loop's stage writes (the stage agents' output_key).
output_key(l) ==
  CASE l = "robust_env_data_agent" -> "env_snapshot"
    [] l = "robust_env_location_agent" -> "env_location_options"
    [] l = "robust_env_risk_agent" -> "env_risk_report"

current_agent == LoopAgent(loop).sub_agents[idx]

\* A loop that tests the bound before counting the iteration just finished.
loop_control_late_count(escalate, raised) ==
  IF raised THEN [status |-> "raised", idx |-> idx, times_looped |-> times_looped]
  ELSE IF escalate THEN [status |-> "escalated", idx |-> idx, times_looped |-> times_looped]
  ELSE IF idx < Len(LoopAgent(loop).sub_agents)
  THEN [status |-> "running", idx |-> idx + 1, times_looped |-> times_looped]
  ELSE IF times_looped < LoopAgent(loop).max_iterations
  THEN [status |-> "running", idx |-> 1, times_looped |-> times_looped + 1]
  ELSE [status |-> "exhausted", idx |-> idx, times_looped |-> times_looped + 1]

\* LoopAgent is google.adk's: the three robust_env_*_agent objects are its
\* instances, configured with sub_agents and max_iterations.
\* What LoopAgent does after a sub-agent has run: an exception ends the
\* invocation; an escalating event ends the loop; otherwise the next sub-agent
\* runs, and after the last one the iteration is counted and the loop goes
\* round again while times_looped < max_iterations.
loop_control(escalate, raised) ==
  IF raised THEN [status |-> "raised", idx |-> idx, times_looped |-> times_looped]
  ELSE IF escalate THEN [status |-> "escalated", idx |-> idx, times_looped |-> times_looped]
  ELSE IF idx < Len(LoopAgent(loop).sub_agents)
  THEN [status |-> "running", idx |-> idx + 1, times_looped |-> times_looped]
  ELSE IF times_looped + 1 < LoopAgent(loop).max_iterations
  THEN [status |-> "running", idx |-> 1, times_looped |-> times_looped + 1]
  ELSE [status |-> "exhausted", idx |-> idx, times_looped |-> times_looped + 1]

Advance(escalate, raised) ==
  LET next == loop_control(escalate, raised) IN
  /\ status' = next.status
  /\ idx' = next.idx
  /\ times_looped' = next.times_looped
  /\ runs' = [runs EXCEPT ![idx] = @ + 1]
  /\ UNCHANGED loop

\* The root agent hands the turn to one of its three sub_agents.
InvokeLoop(l) ==
  /\ status # "running"
  /\ loop' = l
  /\ idx' = 1
  /\ times_looped' = 0
  /\ runs' = [i \in 1..Len(LoopAgent(l).sub_agents) |-> 0]
  /\ status' = "running"
  /\ lastWrite' = Absent
  /\ event' = NoEvent
  /\ given' = Absent
  /\ lastOp' = l
  /\ UNCHANGED <<state, reply, written, toolVars>>

\* A stage: the LLM agent's output goes to its output_key, then its
\* after_agent_callback runs.  Stage events never escalate.  Zephyr's
\* callback, suppress_output_callback, only replaces the reply text.
RunStage(name, key, out, after) ==
  /\ status = "running"
  /\ current_agent = name
  /\ state' = after
  /\ lastWrite' = IF key = output_key(loop) THEN after[key] ELSE lastWrite
  /\ lastOp' = name
  /\ given' = out
  /\ written' = Append(SelectSeq(written, LAMBDA k : k # key), key)
  /\ Advance(FALSE, FALSE)
  /\ UNCHANGED <<event, reply, toolVars>>

RunChecker(name, key, res) ==
  /\ status = "running"
  /\ current_agent = name
  /\ given' = state[key]
  /\ state' = res.state
  /\ event' = EventOf(res)
  /\ lastOp' = name
  /\ Advance(res.escalate, res.raised)
  /\ UNCHANGED <<lastWrite, reply, written, toolVars>>

\* What the stages' LLMs may produce.
ZephyrOutputs ==
  {Snap(Dict([temperature_c |-> Num(18), wind_speed_10m_ms |-> Num(3)])),
   Snap(Dict([temperature_c |-> NoneV])),
   List(<<Snap(Dict([temperature_c |-> Num(18)]))>>),
   List(<<>>),
   Text("snap_valid"),
   Text("no data")}

AtlasOutputs ==
  {List(<<Loc(Text("A"), Num(Deg(91)), Num(0)), Loc(Text("B"), Num(Deg(10)), Num(Deg(10)))>>),
   List(<<Loc(Text("A"), Num(Deg(91)), Num(0))>>),
   List(<<Loc(Text("A"), Num(Deg(10)), Num(Deg(10))), Loc(Text("B"), Num(Deg(10) + 4), Num(Deg(10)))>>),
   List(<<>>),
   Text("loc_list"),
   Str(<<"fence_json", "\n", "loc_list", "\n", "fence">>),
   Text("loc_wrapped"),
   Text("no places found")}

AetherOutputs ==
  {Dict([overall_risk |-> Text("low")]),
   Dict([overall_risk |-> Text("extreme")]),
   Dict([overall_risk |-> List(<<Text("low")>>)]),
   Text("risk_low"),
   Str(<<"fence", "risk_extreme", "fence">>),
   Text("high risk today")}

\* A report of more than 50 characters.
LongAdvice == "## Weekend outlook: calm and clear, a good day for hiking by the lake."

AuroraOutputs == {Text("## Advice"), Str(<<>>), Text(LongAdvice)}

zephyr_env_data_agent ==
  \E out \in ZephyrOutputs :
    RunStage("zephyr_env_data_agent", "env_snapshot", out,
             [state EXCEPT !["env_snapshot"] = out])

atlas_env_location_discovery_agent ==
  \E out \in AtlasOutputs :
    RunStage("atlas_env_location_discovery_agent", "env_location_options", out,
             atlas_location_callback([state EXCEPT !["env_location_options"] = out]))

atlas_env_location_geocode_agent ==
  \E out \in AtlasOutputs :
    RunStage("atlas_env_location_geocode_agent", "env_location_options", out,
             atlas_location_callback([state EXCEPT !["env_location_options"] = out]))

aether_env_risk_agent ==
  \E out \in AetherOutputs :
    RunStage("aether_env_risk_agent", "env_risk_report", out,
             aether_risk_callback([state EXCEPT !["env_risk_report"] = out]))

aurora_env_advice_writer ==
  \E out \in AuroraOutputs :
    RunStage("aurora_env_advice_writer", "env_advice_markdown", out,
             [state EXCEPT !["env_advice_markdown"] = out])

env_snapshot_validation_checker ==
  RunChecker("env_snapshot_validation_checker", "env_snapshot",
             EnvSnapshotValidationChecker(state))

location_geo_validation_agent ==
  RunChecker("location_geo_validation_agent", "env_location_options",
             EnvLocationGeoValidationChecker(state))

env_risk_validation_checker ==
  RunChecker("env_risk_validation_checker", "env_risk_report",
             EnvRiskValidationChecker_utils(state))

Init ==
  /\ state = EmptyState
  /\ event = NoEvent
  /\ given = Absent
  /\ lastOp = "none"
  /\ loop = "none"
  /\ idx = 0
  /\ times_looped = 0
  /\ runs = <<>>
  /\ lastWrite = Absent
  /\ status = "idle"
  /\ reply = NoReply
  /\ written = <<>>
  /\ ToolsIdle

Next ==
  \/ \E l \in Loops : InvokeLoop(l)
  \/ zephyr_env_data_agent
  \/ env_snapshot_validation_checker
  \/ atlas_env_location_discovery_agent
  \/ atlas_env_location_geocode_agent
  \/ location_geo_validation_agent
  \/ aether_env_risk_agent
  \/ env_risk_validation_checker
  \/ aurora_env_advice_writer

Spec == Init /\ [][Next]_vars

\* ------------------------------------------------------------- reply text
\* The number of characters of each text token.
Chars ==
  ("## Advice" :> 9) @@ (LongAdvice :> 70) @@ ("report_json" :> 62) @@ ("risk_low" :> 43)
    @@ ("fence_markdown" :> 11) @@ ("fence_json" :> 7) @@ ("fence" :> 3)
    @@ ("\n" :> 1) @@ (" " :> 1) @@ ("high risk today" :> 15)

\* len(s)
RECURSIVE len(_)
len(s) == IF s = <<>> THEN 0 ELSE Chars[Head(s)] + len(Tail(s))

\* str.upper() and str.capitalize() on the words used as risk levels.
UpperCase ==
  ("low" :> "LOW") @@ ("high" :> "HIGH") @@ ("extreme" :> "EXTREME") @@ ("unknown" :> "UNKNOWN")

Capitalized ==
  ("low" :> "Low") @@ ("high" :> "High") @@ ("extreme" :> "Extreme") @@ ("severe" :> "Severe")
    @@ ("unknown" :> "Unknown")

upper(s) == [i \in DOMAIN s |-> IF s[i] \in DOMAIN UpperCase THEN UpperCase[s[i]] ELSE s[i]]

capitalize(s) ==
  [i \in DOMAIN s |-> IF i = 1 /\ s[i] \in DOMAIN Capitalized THEN Capitalized[s[i]] ELSE s[i]]

\* f"{v}": the text an f-string puts for a value.
fmt(v) ==
  CASE v.t = "str" -> v.s
    [] v.t = "num" -> <<ToString(v.n)>>
    [] v.t = "none" -> <<"None">>
    [] v.t = "nan" -> <<"nan">>
    [] v.t = "list" -> <<"[", "repr", "]">>
    [] v.t = "dict" -> <<"{", "repr", "}">>

\* "\n".join(lines), each line a sequence of tokens
RECURSIVE join(_)
join(lines) ==
  IF lines = <<>> THEN <<>>
  ELSE IF Len(lines) = 1 THEN lines[1]
  ELSE lines[1] \o <<"\n">> \o join(Tail(lines))

\* s.replace("```markdown", "").replace("```", "") when drop_markdown, and
\* s.replace("```", "") otherwise, which leaves the tag of a tagged fence.
RECURSIVE replace_fences(_, _)
replace_fences(s, drop_markdown) ==
  IF s = <<>> THEN <<>>
  ELSE
    LET tok == Head(s)
        out == CASE tok = "fence" -> <<>>
                 [] tok = "fence_json" -> <<"json">>
                 [] tok = "fence_markdown" -> IF drop_markdown THEN <<>> ELSE <<"markdown">>
                 [] OTHER -> <<tok>>
    IN out \o replace_fences(Tail(s), drop_markdown)

\* The text begins with '{' or '[' after trimming: its first token is a JSON
\* object or array.
begins_with_brace(s) ==
  /\ strip(s) # <<>>
  /\ \/ Head(strip(s)) \in {"{", "["}
     \/ /\ Head(strip(s)) \in DOMAIN JsonDoc
        /\ JsonDoc[Head(strip(s))].t \in {"dict", "list"}


\* ------------------------------------------------- utils/agent_utils.py
\* A text result: the text, or the AttributeError of calling .get, .upper or
\* .capitalize on a value that has none.
TextOk(text) == [ok |-> TRUE, text |-> text]
TextRaised == [ok |-> FALSE, text |-> <<>>]

risk_labels ==
  <<[risk_type |-> "heat_risk", label |-> "Heat Risk"],
    [risk_type |-> "cold_risk", label |-> "Cold Risk"],
    [risk_type |-> "wind_risk", label |-> "Wind Risk"],
    [risk_type |-> "air_quality_risk", label |-> "Air Quality Risk"]>>

\* the levels that "level not in ['low', 'unknown']" lets through
risk_factor_level(risk, i) == dict_get_default(risk, risk_labels[i].risk_type, Text("unknown"))

is_risk_factor(risk, i) == risk_factor_level(risk, i) \notin {Text("low"), Text("unknown")}

RECURSIVE risk_factors(_, _)
risk_factors(risk, i) ==
  IF i > Len(risk_labels) THEN <<>>
  ELSE IF is_risk_factor(risk, i)
  THEN <<<<"- **", risk_labels[i].label, ":** ">> \o capitalize(risk_factor_level(risk, i).s)>>
         \o risk_factors(risk, i + 1)
  ELSE risk_factors(risk, i + 1)

\* snapshot.get("current", {})
current_of(loc) == dict_get_default(loc, "current", EmptyDict)

\* the "Current Weather" lines of a single-location snapshot
current_weather(snapshot) ==
  LET name == dict_get_default(snapshot, "location_name", Text("your location"))
      current == current_of(snapshot)
      temp == dict_get(current, "temperature_c")
      feels == dict_get_default(current, "feels_like_c", temp)
      wind_ms == dict_get(current, "wind_speed_10m_ms")
      humidity == dict_get(current, "humidity_percent")
  IN <<<<"\n", "**Current Weather:**">>>>
       \o (IF truthy(name) THEN <<<<"- **Location:** ">> \o fmt(name)>> ELSE <<>>)
       \o (IF temp.t # "none"
           THEN (IF feels.t # "none" /\ feels # temp
                 THEN <<<<"- **Temperature:** ">> \o fmt(temp) \o <<"C (feels like ">>
                          \o fmt(feels) \o <<"C)">>>>
                 ELSE <<<<"- **Temperature:** ">> \o fmt(temp) \o <<"C">>>>)
           ELSE <<>>)
       \o (IF wind_ms.t # "none" THEN <<<<"- **Wind:** ">> \o fmt(wind_ms) \o <<" m/s">>>> ELSE <<>>)
       \o (IF humidity.t # "none" THEN <<<<"- **Humidity:** ">> \o fmt(humidity) \o <<"%">>>> ELSE <<>>)

\* the two lines of one location of a list snapshot
location_weather(loc, bullet, ending) ==
  LET name == dict_get_default(loc, "location_name", Text("Unknown"))
      current == current_of(loc)
      temp == dict_get_default(current, "temperature_c", Text("?"))
      wind == dict_get_default(current, "wind_speed_10m_ms", Text("?"))
      humidity == dict_get_default(current, "humidity_percent", Text("?"))
  IN << <<"**">> \o fmt(name) \o <<"**">>,
        <<bullet, "Temperature: ">> \o fmt(temp) \o <<"C, Wind: ">> \o fmt(wind)
          \o <<" m/s, Humidity: ">> \o fmt(humidity) \o <<"%">> \o ending >>

\* for loc in snapshot: the lines of the entries that are dicts
RECURSIVE weather_by_location(_, _, _)
weather_by_location(l, bullet, ending) ==
  IF l = <<>> THEN <<>>
  ELSE IF ~isinstance(Head(l), "dict") THEN weather_by_location(Tail(l), bullet, ending)
  ELSE location_weather(Head(l), bullet, ending) \o weather_by_location(Tail(l), bullet, ending)

\* loc.get on a non-dict entry (unless the loop skips it with "if not
\* isinstance(loc, dict): continue"), or current.get on a "current" that is
\* no dict
weather_by_location_raises(l, skip_non_dict) ==
  \E i \in 1..Len(l) :
    IF isinstance(l[i], "dict") THEN ~isinstance(current_of(l[i]), "dict")
    ELSE ~skip_non_dict

format_risk_summary(risk, snapshot) ==
  IF ~isinstance(risk, "dict") THEN TextRaised
  ELSE
    LET overall == dict_get_default(risk, "overall_risk", Text("unknown"))
        rationale == dict_get_default(risk, "rationale", Str(<<>>))
    IN
    IF ~isinstance(overall, "str") THEN TextRaised
    ELSE IF \E i \in 1..Len(risk_labels) :
              is_risk_factor(risk, i) /\ ~isinstance(risk_factor_level(risk, i), "str")
    THEN TextRaised
    ELSE IF /\ truthy(snapshot) /\ isinstance(snapshot, "dict")
            /\ "location_name" \in DOMAIN snapshot.d
            /\ ~isinstance(current_of(snapshot), "dict")
    THEN TextRaised
    ELSE IF /\ truthy(snapshot) /\ isinstance(snapshot, "list")
            /\ weather_by_location_raises(snapshot.l, TRUE)
    THEN TextRaised
    ELSE
      LET lines ==
            << <<"## Weather & Safety Assessment", "\n">>,
               <<"**Overall Risk Level:** ">> \o upper(overall.s) \o <<"\n">> >>
              \o (IF risk_factors(risk, 1) # <<>>
                  THEN <<<<"\n", "**Risk Factors:**">>>> \o risk_factors(risk, 1)
                  ELSE <<>>)
              \o (IF truthy(rationale) THEN <<<<"\n", "**Analysis:** ">> \o fmt(rationale)>> ELSE <<>>)
              \o (IF ~truthy(snapshot) THEN <<>>
                  ELSE IF isinstance(snapshot, "dict") /\ "location_name" \in DOMAIN snapshot.d
                  THEN current_weather(snapshot)
                  ELSE IF isinstance(snapshot, "list")
                  THEN <<<<"\n", "**Weather by Location:**", "\n">>>>
                         \o weather_by_location(snapshot.l, "  - ", <<>>)
                  ELSE <<>>)
      IN TextOk(join(lines))

format_weather_summary(snapshot) ==
  IF isinstance(snapshot, "list")
  THEN IF weather_by_location_raises(snapshot.l, FALSE) THEN TextRaised
       ELSE TextOk(join(<<<<"Current weather across your locations:", "\n">>>>
                          \o weather_by_location(snapshot.l, "- ", <<"\n">>)))
  ELSE TextOk(<<"Weather data not available.">>)

\* "- {name} — {admin1}, {country}" for each location
RECURSIVE location_bullets(_)
location_bullets(locs) ==
  IF locs = <<>> THEN <<>>
  ELSE << <<"- ">> \o fmt(dict_get_default(Head(locs), "name", Text("Unknown"))) \o <<" - ">>
            \o fmt(dict_get_default(Head(locs), "admin1", Str(<<>>))) \o <<", ">>
            \o fmt(dict_get_default(Head(locs), "country", Str(<<>>))) >>
         \o location_bullets(Tail(locs))

\* "Here are some options you might consider:\n" + "\n".join(lines); loc.get
\* raises on an entry that is not a dict.
location_options_message(locs) ==
  IF \E i \in 1..Len(locs) : ~isinstance(locs[i], "dict") THEN ReplyRaised
  ELSE Reply(<<"Here are some options you might consider:", "\n">> \o join(location_bullets(locs)))

ReplyOf(res) == IF res.ok THEN Reply(res.text) ELSE ReplyRaised

\* The advice with its code fences removed (envi_root_callback, priority 1).
advice_text(advice) ==
  LET a == strip(advice.s) IN
  IF a # <<>> /\ Head(a) = "fence_markdown" THEN strip(replace_fences(a, TRUE))
  ELSE IF a # <<>> /\ Head(a) \in {"fence", "fence_json"} THEN strip(replace_fences(a, FALSE))
  ELSE a

\* utils/agent_utils.py: what the callback returns (it writes no state).
envi_root_callback(st) ==
  LET aurora_required == IF st["_aurora_required"].t = "absent" THEN Bool(FALSE)
                         ELSE st["_aurora_required"]
      advice == state_get(st, "env_advice_markdown")
      risk == state_get(st, "env_risk_report")
      snapshot == state_get(st, "env_snapshot")
      locs == state_get(st, "env_location_options")
  IN
  IF truthy(aurora_required) /\ truthy(risk) /\ truthy(snapshot)
  THEN ReplyOf(format_risk_summary(risk, snapshot))
  ELSE IF truthy(advice) /\ len(advice.s) > 50 THEN Reply(advice_text(advice))
  ELSE IF truthy(risk) /\ isinstance(risk, "dict") THEN ReplyOf(format_risk_summary(risk, snapshot))
  ELSE IF truthy(snapshot) THEN ReplyOf(format_weather_summary(snapshot))
  ELSE IF isinstance(locs, "list") /\ truthy(locs) /\ isinstance(locs.l[1], "dict")
  THEN location_options_message(locs.l)
  ELSE NoReply

report_keywords ==
  {"generate", "create", "write", "make", "report", "recommendations", "analysis"}

\* agent.py: the state the callback leaves and what it returns.
Theophrastus_root_callback(st, current_invocation_id) ==
  LET last_advice_invocation == state_get(st, "_last_advice_invocation_id")
      advice == state_get(st, "env_advice_markdown")
      present == {k \in StateKeys : st[k].t # "absent"}
      snapshot == Dict([k \in present |-> st[k]])
      st2 == [st EXCEPT !["_evaluation_snapshot"] = snapshot]
      risk_report == state_get(st, "env_risk_report")
      got == state_get(st, "env_location_options")
      locs == IF isinstance(got, "str") /\ json_loads(got.s).ok THEN json_loads(got.s).v ELSE got
      last_msg == IF st["last_user_message"].t = "absent" THEN <<>> ELSE st["last_user_message"].s
  IN
  IF truthy(advice) /\ truthy(current_invocation_id)
       /\ current_invocation_id = last_advice_invocation
  THEN [state |-> [st EXCEPT !["_last_advice_invocation_id"] = current_invocation_id],
        reply |-> Reply(advice.s)]
  ELSE IF truthy(risk_report) /\ ~truthy(advice) THEN [state |-> st2, reply |-> NoReply]
  ELSE IF isinstance(locs, "list") /\ truthy(locs) /\ isinstance(locs.l[1], "dict")
  THEN IF \E i \in 1..Len(last_msg) : last_msg[i] \in report_keywords
       THEN [state |-> st2, reply |-> NoReply]
       ELSE [state |-> st2, reply |-> location_options_message(locs.l)]
  ELSE [state |-> st2, reply |-> NoReply]

\* utils/validation_checkers.py, EnvForceAuroraChecker.enforce_aurora_callback
enforce_aurora_callback(st) ==
  LET has_risk == state_get(st, "env_risk_report").t # "none"
      advice == state_get(st, "env_advice_markdown")
      has_advice == advice.t # "none" /\ len(advice.s) > 50
  IN IF has_risk /\ ~has_advice
     THEN [state |-> [st EXCEPT !["_aurora_required"] = Bool(TRUE)],
           reply |-> Reply(<<"AURORA_REQUIRED">>)]
     ELSE [state |-> [st EXCEPT !["_aurora_required"] = Bool(FALSE)],
           reply |-> Reply(<<"PASS">>)]

\* ------------------------------------------- the callbacks on every state
\* The bookkeeping keys the callbacks read and write besides the four outputs.
CallbackKeys ==
  StateKeys \cup {"_aurora_required", "_last_advice_invocation_id", "_evaluation_snapshot",
                  "last_user_message"}

LimaSnapshot ==
  Dict([location_name |-> Text("Lima"),
        current |-> Dict([temperature_c |-> Num(18), wind_speed_10m_ms |-> Num(3)])])

\* What the stages can have left in the session when the root agent finishes.
CallbackRiskValues ==
  {Absent,
   Dict([overall_risk |-> Text("low"), rationale |-> Text("calm")]),
   Dict([overall_risk |-> Text("high"), heat_risk |-> Text("severe")]),
   Dict([overall_risk |-> NoneV]),
   Text("high risk today")}

CallbackSnapshotValues ==
  {Absent, LimaSnapshot, Snap(Dict([temperature_c |-> Num(18)])),
   Dict([location_name |-> Text("Lima"), current |-> NoneV]),
   List(<<LimaSnapshot>>), List(<<Text("n/a")>>)}

CallbackLocationValues ==
  {Absent, List(<<>>),
   List(<<cleaned_entry(Loc(Text("B"), Num(Deg(10)), Num(Deg(10))), Num(Deg(10)), Num(Deg(10)))>>),
   List(<<Text("Yosemite")>>),
   Text("no places found")}

CallbackAdviceValues ==
  {Absent, Str(<<>>), Text("## Advice"), Text(LongAdvice),
   Str(<<"fence_markdown", "\n", LongAdvice, "\n", "fence">>),
   Text("report_json"),
   Str(<<"fence", "\n", "report_json", "\n", "fence">>),
   Str(<<"fence_json", "\n", "report_json", "\n", "fence">>)}

InvocationIds == {Text("e-1")}

RunCallback(name, st, rep) ==
  /\ state' = st
  /\ reply' = rep
  /\ lastOp' = name
  /\ UNCHANGED <<event, given, loop, idx, times_looped, runs, lastWrite, status, written, toolVars>>

RunEnviRootCallback == RunCallback("envi_root_callback", state, envi_root_callback(state))

RunTheophrastusRootCallback ==
  \E id \in InvocationIds :
    RunCallback("Theophrastus_root_callback", Theophrastus_root_callback(state, id).state,
                Theophrastus_root_callback(state, id).reply)

RunEnforceAuroraCallback ==
  RunCallback("enforce_aurora_callback", enforce_aurora_callback(state).state,
              enforce_aurora_callback(state).reply)

\* The Report Writer storing its output under its output_key.
WriteAdvice ==
  \E out \in CallbackAdviceValues \ {Absent} :
    /\ state' = [state EXCEPT !["env_advice_markdown"] = out]
    /\ lastOp' = "aurora_env_advice_writer"
    /\ written' = Append(SelectSeq(written, LAMBDA k : k # "env_advice_markdown"),
                         "env_advice_markdown")
    /\ UNCHANGED <<event, given, loop, idx, times_looped, runs, lastWrite, status, reply,
                   toolVars>>

InitCallback ==
  /\ \E risk \in CallbackRiskValues, snapshot \in CallbackSnapshotValues,
        locs \in CallbackLocationValues, advice \in CallbackAdviceValues :
       state = [k \in CallbackKeys |->
                  CASE k = "env_risk_report" -> risk
                    [] k = "env_snapshot" -> snapshot
                    [] k = "env_location_options" -> locs
                    [] k = "env_advice_markdown" -> advice
                    [] OTHER -> Absent]
  /\ event = NoEvent
  /\ given = Absent
  /\ lastOp = "none"
  /\ loop = "none"
  /\ idx = 0
  /\ times_looped = 0
  /\ runs = <<>>
  /\ lastWrite = Absent
  /\ status = "idle"
  /\ reply = NoReply
  /\ written = <<>>
  /\ ToolsIdle

NextCallback ==
  \/ RunEnviRootCallback
  \/ RunTheophrastusRootCallback
  \/ RunEnforceAuroraCallback
  \/ WriteAdvice

SpecCallback == InitCallback /\ [][NextCallback]_vars

\* ------------------------------------------------------------------
\* the turns of a session in which the root agent hands over to
\* robust_env_risk_agent or to nobody, and its after_agent_callback answers
\* when no loop is running.  After a turn that an exception ended, the
\* callback runs at the end of a later turn.
\* ------------------------------------------------------------------
RootCallback ==
  /\ status # "running"
  /\ RunEnviRootCallback \/ RunTheophrastusRootCallback

InitTurns ==
  /\ state = [k \in CallbackKeys |-> Absent]
  /\ lastOp = "none"
  /\ AgentsIdle
  /\ ToolsIdle

NextTurns ==
  \/ InvokeLoop("robust_env_risk_agent")
  \/ aether_env_risk_agent
  \/ env_risk_validation_checker
  \/ aurora_env_advice_writer
  \/ RootCallback

SpecTurns == InitTurns /\ [][NextTurns]_vars

\* ------------------------------------------------- tools/web_access_tools.py
\* A place name or region hint is a sequence of words separated by single
\* spaces: each word in lower case, with whether it is capitalised and whether
\* a comma follows it.  (Words are atomic: no word is part of another.)
Cap(w) == [w |-> w, cap |-> TRUE, comma |-> FALSE]
Low(w) == [w |-> w, cap |-> FALSE, comma |-> FALSE]
WithComma(x) == [x EXCEPT !.comma = TRUE]

\* text.lower()
lower(text) == [i \in DOMAIN text |-> [text[i] EXCEPT !.cap = FALSE]]

\* the text with the comma after its last word set or cleared
EndComma(text, c) == IF text = <<>> THEN text ELSE [text EXCEPT ![Len(text)].comma = c]

suffixes_to_remove ==
  << <<Cap("national"), Cap("park")>>, <<Low("national"), Low("park")>>,
     <<Cap("state"), Cap("park")>>, <<Low("state"), Low("park")>>,
     <<Cap("park")>>, <<Low("park")>>, <<Cap("forest")>>, <<Low("forest")>>,
     <<Cap("mountain")>>, <<Low("mountain")>>, <<Cap("volcano")>>, <<Low("volcano")>>,
     <<Cap("trail")>>, <<Low("trail")>>, <<Cap("reserve")>>, <<Low("reserve")>> >>

\* cleaned.endswith(suffix): the suffix starts with a space, so a word precedes it
endswith(text, suffix) ==
  /\ Len(text) > Len(suffix)
  /\ SubSeq(text, Len(text) - Len(suffix) + 1, Len(text)) = suffix

\* for suffix in suffixes_to_remove: ... break  -- the text without the first
\* suffix of the list it ends with, as a list of zero or one candidates
without_suffix(cleaned) ==
  LET hits == {k \in 1..Len(suffixes_to_remove) : endswith(cleaned, suffixes_to_remove[k])} IN
  IF hits = {} THEN <<>>
  ELSE LET k == CHOOSE k \in hits : \A h \in hits : k <= h
       IN <<SubSeq(cleaned, 1, Len(cleaned) - Len(suffixes_to_remove[k]))>>

\* hint.lower() in cleaned.lower(): the hint's words occur in a row
contains(text, hint) ==
  \E j \in 0..(Len(text) - Len(hint)) :
    \A k \in 1..Len(hint) :
      /\ text[j + k].w = hint[k].w
      /\ (k < Len(hint) \/ hint[k].comma) => text[j + k].comma = hint[k].comma

\* f"{name}, {region_hint_clean}"
with_hint(name, hint) ==
  (IF name = <<>> THEN <<WithComma(Low(""))>> ELSE EndComma(name, TRUE)) \o hint

\* the parts of cleaned.split(","), stripped, the empty ones left out
RECURSIVE comma_parts(_, _)
comma_parts(text, part) ==
  IF text = <<>> THEN (IF part = <<>> THEN <<>> ELSE <<part>>)
  ELSE IF Head(text).comma
  THEN <<Append(part, [Head(text) EXCEPT !.comma = FALSE])>> \o comma_parts(Tail(text), <<>>)
  ELSE comma_parts(Tail(text), Append(part, Head(text)))

\* the list candidates, before duplicates are removed
candidates(cleaned, region_hint) ==
  LET parts == comma_parts(cleaned, <<>>) IN
  <<cleaned>>
    \o without_suffix(cleaned)
    \o (IF region_hint # <<>> /\ ~contains(cleaned, region_hint)
        THEN <<with_hint(cleaned, region_hint)>>
               \o [k \in DOMAIN without_suffix(cleaned) |->
                     with_hint(without_suffix(cleaned)[k], region_hint)]
        ELSE <<>>)
    \o (IF Len(cleaned) >= 3 THEN <<SubSeq(cleaned, 1, 2)>> ELSE <<>>)
    \o (IF Len(cleaned) >= 2 THEN <<SubSeq(cleaned, 1, 1)>> ELSE <<>>)
    \o (IF Len(parts) >= 2
        THEN <<with_hint(parts[1], parts[2]), parts[1]>>
        ELSE <<>>)

\* A list that keeps every candidate, also one seen before.
RECURSIVE unique_keep_all(_, _)
unique_keep_all(cs, seen) ==
  IF cs = <<>> THEN <<>>
  ELSE IF Head(cs) = <<>> THEN unique_keep_all(Tail(cs), seen)
  ELSE <<Head(cs)>> \o unique_keep_all(Tail(cs), seen \cup {lower(Head(cs))})

\* for c in candidates: if c_lower not in seen and c: ...
RECURSIVE unique(_, _)
unique(cs, seen) ==
  IF cs = <<>> THEN <<>>
  ELSE IF lower(Head(cs)) \in seen \/ Head(cs) = <<>> THEN unique(Tail(cs), seen)
  ELSE <<Head(cs)>> \o unique(Tail(cs), seen \cup {lower(Head(cs))})

unique_candidates(place_name, region_hint) == unique(candidates(place_name, region_hint), {})

Min(a, b) == IF a <= b THEN a ELSE b

\* What _call_api returns: a timeout, a failed request, or the service's data.
ApiTimeout == [ok |-> FALSE, error |-> "timeout", data |-> NoneV]
ApiRequestFailed == [ok |-> FALSE, error |-> "request_failed", data |-> NoneV]
ApiOk(data) == [ok |-> TRUE, error |-> "none", data |-> data]

\* the k-th place the service knows for a query
ApiPlace(k) == Dict([name |-> Text("place"), latitude |-> Num(Deg(k)), longitude |-> Num(Deg(-k))])

\* The service sends at most count results; the "results" key may be missing.
ApiResponses(count) ==
  {ApiTimeout, ApiRequestFailed, ApiOk(EmptyDict)}
    \cup {ApiOk(Dict([results |-> List([k \in 1..n |-> ApiPlace(k)])])) :
            n \in 0..Min(count, MaxApiResults)}

geocode_result(r) ==
  Dict([name |-> dict_get(r, "name"), latitude |-> dict_get(r, "latitude"),
        longitude |-> dict_get(r, "longitude"), country |-> dict_get(r, "country"),
        admin1 |-> dict_get(r, "admin1"), admin2 |-> dict_get(r, "admin2"),
        population |-> dict_get(r, "population")])

\* the dict returned when no candidate gave a result
geocode_empty(place_name, last_error) ==
  [query |-> place_name, results |-> <<>>, error |-> last_error]

PlaceNames ==
  {<<Cap("yosemite"), Cap("national"), Cap("park")>>,
   <<Cap("zion"), Low("park")>>,
   <<WithComma(Cap("lima")), Cap("peru")>>,
   <<Cap("park")>>,
   <<Cap("pico"), Low("de"), Cap("orizaba"), Cap("volcano")>>,
   <<>>}

RegionHints == {<<>>, <<Cap("california")>>, <<Low("lima")>>}

MaxResultsValues == {1, 2}

\* geocode_place_name(place_name, max_results, region_hint), up to its first
\* request (or its return when there is nothing to ask for).
GeocodeStart ==
  /\ geocode.pc \in {"idle", "returned"}
  /\ \E place_name \in PlaceNames, region_hint \in RegionHints, max_results \in MaxResultsValues :
       LET cs == unique_candidates(place_name, region_hint) IN
       geocode' = [pc |-> IF cs = <<>> THEN "returned" ELSE "calling",
                   place_name |-> place_name, region_hint |-> region_hint,
                   max_results |-> max_results, unique_candidates |-> cs, i |-> 1,
                   queried |-> <<>>, responses |-> <<>>, last_error |-> "none",
                   out |-> geocode_empty(place_name, "none")]
  /\ lastOp' = "geocode_place_name"
  /\ UNCHANGED <<state, agentVars, memory, calls, sharedVars>>

\* One turn of "for i, candidate in enumerate(unique_candidates)": the request
\* and what the function does with the answer, up to the next request or the
\* return.
GeocodeCall ==
  /\ geocode.pc = "calling"
  /\ LET candidate == geocode.unique_candidates[geocode.i]
         attempt_max_results == IF geocode.i = 1 THEN geocode.max_results
                                ELSE Min(geocode.max_results * 2, 10)
         last == geocode.i = Len(geocode.unique_candidates)
     IN \E api_result \in ApiResponses(attempt_max_results) :
          LET got == IF api_result.ok THEN dict_get(api_result.data, "results") ELSE NoneV
              raw_results == IF truthy(got) THEN got.l ELSE <<>>
              results == SubSeq([k \in DOMAIN raw_results |-> geocode_result(raw_results[k])],
                                1, Min(geocode.max_results, Len(raw_results)))
              last_error == IF api_result.ok THEN geocode.last_error ELSE api_result.error
              asked == Append(geocode.queried, [name |-> candidate, count |-> attempt_max_results])
              answers == Append(geocode.responses,
                                [answer |-> IF ~api_result.ok THEN api_result.error
                                            ELSE IF raw_results = <<>> THEN "no_results"
                                            ELSE "results",
                                 n |-> Len(raw_results)])
          IN
          geocode' =
            IF results # <<>>
            THEN [geocode EXCEPT !.pc = "returned", !.queried = asked, !.responses = answers,
                                 !.out = [query |-> candidate, results |-> results,
                                          error |-> "none"]]
            ELSE [geocode EXCEPT !.pc = IF last THEN "returned" ELSE "calling",
                                 !.i = @ + 1, !.queried = asked, !.responses = answers,
                                 !.last_error = last_error,
                                 !.out = geocode_empty(geocode.place_name, last_error)]
  /\ lastOp' = "geocode_place_name"
  /\ UNCHANGED <<state, agentVars, memory, calls, sharedVars>>

InitGeocode ==
  /\ state = EmptyState
  /\ lastOp = "none"
  /\ AgentsIdle
  /\ ToolsIdle

NextGeocode == GeocodeStart \/ GeocodeCall

SpecGeocode == InitGeocode /\ [][NextGeocode]_vars

\* ------------------------------------------------------------------
\* memory/memory_bank.py
\* ------------------------------------------------------------------
Users == {"user_test_01", "user_test_02"}

\* calls[<<operation, key>>] lists, in call order, what the calls of the
\* operation for that key were given.
calls_of(op, key) == IF <<op, key>> \in DOMAIN calls THEN calls[<<op, key>>] ELSE <<>>

calls_with(op, key, x) ==
  [k \in DOMAIN calls \cup {<<op, key>>} |->
     IF k = <<op, key>> THEN Append(calls_of(op, key), x) ELSE calls[k]]

Range(seq) == {seq[k] : k \in DOMAIN seq}

\* list(a set): the elements once each, in an order Python does not fix
list_of(S) == {l \in [1..Cardinality(S) -> S] : Range(l) = S}

\* UserPreference(user_id=user_id); last_updated is a clock reading and is
\* left out.
UserPreference(user_id) ==
  [user_id |-> user_id, preferred_activities |-> <<>>, risk_tolerance |-> "medium",
   favorite_locations |-> <<>>, preferred_weather |-> EmptyDict]

\* existing = set(pref.preferred_activities); existing.update(activities),
\* if activities replaced the set instead of being added to it
existing_replaced(preferred_activities, activities) == Range(activities)

\* existing = set(pref.preferred_activities); existing.update(activities)
existing(preferred_activities, activities) ==
  Range(preferred_activities) \cup Range(activities)

\* pref.preferred_weather.update(preferred_weather)
dict_update(dv, other) ==
  Dict([k \in DOMAIN dv.d \cup DOMAIN other.d |->
          IF k \in DOMAIN other.d THEN other.d[k] ELSE dv.d[k]])

ActivitiesValues ==
  {NoneV, List(<<>>), List(<<"hiking", "cycling">>), List(<<"swimming">>),
   List(<<"hiking", "hiking">>)}

LakeTahoe == Dict([name |-> Text("Lake Tahoe")])

\* the other arguments of store_user_preference: all left out, or all given
OtherPreferences ==
  {[risk_tolerance |-> NoneV, favorite_location |-> NoneV, preferred_weather |-> NoneV],
   [risk_tolerance |-> Text("low"), favorite_location |-> LakeTahoe,
    preferred_weather |-> Dict([min_temp_c |-> Num(15)])]}

\* the most calls of store_user_preference for one user
MaxCalls == 2

\* the body of store_user_preference before the save: the banks it can leave,
\* one for each order list(existing) can take
user_preference_stored(bank, user_id, activities, other) ==
  LET pref == IF user_id \in DOMAIN bank.user_preferences
              THEN bank.user_preferences[user_id]
              ELSE UserPreference(user_id)
      existing_names == {dict_get(pref.favorite_locations[k], "name") :
                           k \in DOMAIN pref.favorite_locations}
      updated(preferred_activities) ==
        [pref EXCEPT
           !.preferred_activities = preferred_activities,
           !.risk_tolerance = IF truthy(other.risk_tolerance)
                              THEN other.risk_tolerance.s[1] ELSE @,
           !.favorite_locations =
              IF /\ truthy(other.favorite_location)
                 /\ dict_get(other.favorite_location, "name") \notin existing_names
              THEN Append(@, other.favorite_location) ELSE @,
           !.preferred_weather = IF truthy(other.preferred_weather)
                                 THEN dict_update(@, other.preferred_weather) ELSE @]
  IN {[bank EXCEPT !.user_preferences =
         [u \in DOMAIN @ \cup {user_id} |->
            IF u = user_id THEN updated(preferred_activities) ELSE @[u]]] :
      preferred_activities \in
        (IF truthy(activities)
         THEN list_of(existing(pref.preferred_activities, activities.l))
         ELSE {pref.preferred_activities})}

\* TheophrastusMemoryBank.store_user_preference, of a memory-only bank
\* (storage_path None: nothing is saved to disk).
store_user_preference ==
  /\ \E user_id \in Users, activities \in ActivitiesValues, other \in OtherPreferences :
       /\ Len(calls_of("store_user_preference", user_id)) < MaxCalls
       /\ memory' \in user_preference_stored(memory, user_id, activities, other)
       /\ calls' = calls_with("store_user_preference", user_id, activities)
  /\ lastOp' = "store_user_preference"
  /\ UNCHANGED <<state, agentVars, geocode, sharedVars>>

InitPreferences ==
  /\ state = EmptyState
  /\ lastOp = "none"
  /\ AgentsIdle
  /\ ToolsIdle

NextPreferences == store_user_preference

SpecPreferences == InitPreferences /\ [][NextPreferences]_vars

\* ------------------------------------------------------------------
\* query history: memory/memory_bank.py and tools/memory_tools.py
\* ------------------------------------------------------------------
\* l[-n:], if it were l[:n]
keep_oldest(l, n) == SubSeq(l, 1, IF Len(l) > n THEN n ELSE Len(l))

\* l[-n:]
last_n(l, n) == SubSeq(l, IF Len(l) > n THEN Len(l) - n + 1 ELSE 1, Len(l))

\* datetime.now() at an append: a reading later than the newest entry's
now_after(timestamps) ==
  IF timestamps = <<>> THEN 1 ELSE timestamps[Len(timestamps)] + 1

\* the user whose history is followed
HistoryUsers == {"user_test_01"}

\* how many appends past the cap of a history are made
MaxOverflow == 2

\* the keys of the session state that tools/memory_tools.py uses
MemoryKeys == {"user:preferences", "user:query_history"}

\* the QueryHistory that add_query_history(user_id, location) appends
QueryHistory(bank, user_id, location) ==
  LET history == IF user_id \in DOMAIN bank.query_history
                 THEN bank.query_history[user_id] ELSE <<>>
  IN [timestamp |-> now_after([k \in DOMAIN history |-> history[k].timestamp]),
      location |-> location, activity |-> NoneV, conditions |-> EmptyDict,
      user_feedback |-> NoneV]

\* the body of add_query_history before the save
query_history_added(bank, user_id, location) ==
  LET history == IF user_id \in DOMAIN bank.query_history
                 THEN bank.query_history[user_id] ELSE <<>>
  IN [bank EXCEPT !.query_history =
        [u \in DOMAIN @ \cup {user_id} |->
           IF u = user_id
           THEN last_n(Append(history, QueryHistory(bank, user_id, location)), 100)
           ELSE @[u]]]

\* TheophrastusMemoryBank.add_query_history(user_id, location), of a
\* memory-only bank.
add_query_history ==
  /\ \E user_id \in HistoryUsers :
       /\ Len(calls_of("add_query_history", user_id)) < 100 + MaxOverflow
       /\ memory' = query_history_added(memory, user_id, "Lima")
       /\ calls' = calls_with("add_query_history", user_id,
                              QueryHistory(memory, user_id, "Lima"))
  /\ lastOp' = "add_query_history"
  /\ UNCHANGED <<state, agentVars, geocode, sharedVars>>

\* tools/memory_tools.py add_to_query_history(tool_context, location)
add_to_query_history ==
  /\ LET key == "user:query_history"
         history == IF state[key].t = "absent" THEN <<>> ELSE state[key].l
         query == Dict([timestamp |->
                          Num(now_after([k \in DOMAIN history |->
                                           dict_get(history[k], "timestamp").n])),
                        location |-> Text("Lima"), activity |-> NoneV,
                        weather_summary |-> NoneV])
     IN /\ Len(calls_of("add_to_query_history", key)) < 20 + MaxOverflow
        /\ state' = [state EXCEPT ![key] = List(last_n(Append(history, query), 20))]
        /\ calls' = calls_with("add_to_query_history", key, query)
  /\ lastOp' = "add_to_query_history"
  /\ UNCHANGED <<agentVars, geocode, memory, sharedVars>>

\* text.lower() of the texts of a query
LowerCaseOf(tok) == IF tok = "Lima" THEN "lima" ELSE tok

\* needle in hay, for texts of whole words
text_in(needle, hay) ==
  \E i \in 0..Len(hay) :
    /\ i + Len(needle) <= Len(hay)
    /\ \A k \in DOMAIN needle : hay[i + k] = needle[k]

\* search_lower in query.get(key, "").lower(): a boolean, or raised when the
\* value under the key is None
field_matches(search_lower, query, key) ==
  LET value == dict_get_default(query, key, Str(<<>>)) IN
  IF value.t # "str" THEN [raised |-> TRUE, found |-> FALSE]
  ELSE [raised |-> FALSE,
        found |-> text_in(search_lower, [k \in DOMAIN value.s |-> LowerCaseOf(value.s[k])])]

\* the condition of the "if" in the loop of search_query_history: "or" stops
\* at the first operand that is true
query_matches(search_lower, query) ==
  LET location == field_matches(search_lower, query, "location")
      activity == field_matches(search_lower, query, "activity")
      weather_summary == field_matches(search_lower, query, "weather_summary")
  IN IF location.raised \/ location.found THEN location
     ELSE IF activity.raised \/ activity.found THEN activity
     ELSE weather_summary

\* tools/memory_tools.py search_query_history(tool_context, search_term): what
\* it returns, or raised
search_query_history_result(st, search_term) ==
  LET history == IF st["user:query_history"].t = "absent" THEN <<>>
                 ELSE st["user:query_history"].l
      search_lower == [k \in DOMAIN search_term |-> LowerCaseOf(search_term[k])]
      matches == SelectSeq(history, LAMBDA query : query_matches(search_lower, query).found)
  IN IF history = <<>>
     THEN [raised |-> FALSE, status |-> "empty", matches |-> <<>>]
     ELSE IF \E k \in DOMAIN history : query_matches(search_lower, history[k]).raised
     THEN [raised |-> TRUE, status |-> "none", matches |-> <<>>]
     ELSE [raised |-> FALSE, status |-> "success", matches |-> matches]

SearchTerms == {<<"Lima">>, <<"hiking">>, <<>>}

\* search_query_history; calls keeps the last search with its result
search_query_history ==
  /\ \E search_term \in SearchTerms :
       calls' = [k \in DOMAIN calls \cup {<<"search_query_history", "user:query_history">>} |->
                   IF k = <<"search_query_history", "user:query_history">>
                   THEN <<[search_term |-> search_term,
                           result |-> search_query_history_result(state, search_term)]>>
                   ELSE calls[k]]
  /\ lastOp' = "search_query_history"
  /\ UNCHANGED <<state, agentVars, geocode, memory, sharedVars>>

InitHistory ==
  /\ state = [k \in MemoryKeys |-> Absent]
  /\ lastOp = "none"
  /\ AgentsIdle
  /\ ToolsIdle

NextHistory == add_query_history \/ add_to_query_history

SpecHistory == InitHistory /\ [][NextHistory]_vars

\* the session-state history and the searches of it
NextSearch == add_to_query_history \/ search_query_history

SpecSearch == InitHistory /\ [][NextSearch]_vars

\* ------------------------------------------------------------------
\* location memories: memory/memory_bank.py store_location_memory
\* ------------------------------------------------------------------
\* a float that is n / 2^e, n odd unless e = 0
Dyadic(n, e) == [t |-> "num", n |-> n, e |-> e]

RECURSIVE normal(_, _)
normal(n, e) == IF e > 0 /\ n % 2 = 0 THEN normal(n \div 2, e - 1) ELSE Dyadic(n, e)

\* (existing + value) / 2, if it were existing + value
unhalved_sum(a, b) ==
  LET e == IF a.e >= b.e THEN a.e ELSE b.e
  IN normal(a.n * 2^(e - a.e) + b.n * 2^(e - b.e), e)

\* (existing + value) / 2
half_sum(a, b) ==
  LET e == IF a.e >= b.e THEN a.e ELSE b.e
  IN normal(a.n * 2^(e - a.e) + b.n * 2^(e - b.e), e + 1)

\* LocationMemory(name=name, coordinates=coordinates), if query_count
\* started at 1
LocationMemory_counted(name, coordinates) ==
  [name |-> name, coordinates |-> coordinates, query_count |-> 1,
   typical_conditions |-> EmptyDict, notes |-> ""]

\* LocationMemory(name=name, coordinates=coordinates); last_queried is a clock
\* reading and is left out
LocationMemory(name, coordinates) ==
  [name |-> name, coordinates |-> coordinates, query_count |-> 0,
   typical_conditions |-> EmptyDict, notes |-> ""]

\* the keys of the conditions dicts, in the order conditions.items() gives them
ConditionKeys == <<"temp", "wind">>

\* "for key, value in conditions.items()": the dict after the keys still to
\* come, or raised when existing + value is a TypeError
RECURSIVE blended(_, _, _)
blended(typical_conditions, conditions, keys) ==
  IF keys = <<>> THEN [d |-> typical_conditions, raised |-> FALSE]
  ELSE LET key == Head(keys) IN
       IF key \notin DOMAIN conditions.d
       THEN blended(typical_conditions, conditions, Tail(keys))
       ELSE LET value == conditions.d[key]
                set(v) == Dict([k \in DOMAIN typical_conditions.d \cup {key} |->
                                  IF k = key THEN v ELSE typical_conditions.d[k]])
            IN IF value.t = "num" /\ key \in DOMAIN typical_conditions.d
               THEN IF typical_conditions.d[key].t = "num"
                    THEN blended(set(half_sum(typical_conditions.d[key], value)),
                                 conditions, Tail(keys))
                    ELSE [d |-> typical_conditions, raised |-> TRUE]
               ELSE blended(set(value), conditions, Tail(keys))

\* the body of store_location_memory before the save: the bank after it and
\* whether it raised
location_memory_stored(bank, name, coordinates, conditions, notes) ==
  LET memo == IF name \in DOMAIN bank.location_memories
              THEN bank.location_memories[name]
              ELSE LocationMemory(name, coordinates)
      update == IF ~truthy(conditions)
                THEN [d |-> memo.typical_conditions, raised |-> FALSE]
                ELSE IF ~truthy(memo.typical_conditions)
                THEN [d |-> conditions, raised |-> FALSE]
                ELSE blended(memo.typical_conditions, conditions, ConditionKeys)
      stored == [memo EXCEPT !.query_count = @ + 1,
                             !.typical_conditions = update.d,
                             !.notes = IF ~update.raised /\ truthy(notes)
                                       THEN notes.s[1] ELSE @]
  IN [bank |-> [bank EXCEPT !.location_memories =
                  [n \in DOMAIN @ \cup {name} |-> IF n = name THEN stored ELSE @[n]]],
      raised |-> update.raised]

LocationNames == {"Lima", "Cusco"}

CoordinatesValues ==
  {Dict([latitude |-> Num(Deg(-12)), longitude |-> Num(Deg(-77))]),
   Dict([latitude |-> Num(Deg(-13)), longitude |-> Num(Deg(-72))])}

ConditionsValues ==
  {NoneV, Dict([temp |-> Dyadic(18, 0)]),
   Dict([temp |-> Dyadic(21, 0), wind |-> Dyadic(3, 0)]),
   Dict([temp |-> Text("mild")])}

NotesValues == {NoneV, Text("windy")}

\* the most calls of store_location_memory in all
MaxObservations == 3

calls_total(op) ==
  LET keys == {k \in DOMAIN calls : k[1] = op}
      RECURSIVE total(_)
      total(S) == IF S = {} THEN 0
                  ELSE LET k == CHOOSE x \in S : TRUE IN Len(calls[k]) + total(S \ {k})
  IN total(keys)

\* TheophrastusMemoryBank.store_location_memory, of a memory-only bank
store_location_memory ==
  /\ calls_total("store_location_memory") < MaxObservations
  /\ \E name \in LocationNames, coordinates \in CoordinatesValues,
        conditions \in ConditionsValues, notes \in NotesValues :
       LET done == location_memory_stored(memory, name, coordinates, conditions, notes) IN
       /\ memory' = done.bank
       /\ calls' = calls_with("store_location_memory", name,
                              [coordinates |-> coordinates, conditions |-> conditions,
                               raised |-> done.raised])
  /\ lastOp' = "store_location_memory"
  /\ UNCHANGED <<state, agentVars, geocode, sharedVars>>

InitLocations ==
  /\ state = EmptyState
  /\ lastOp = "none"
  /\ AgentsIdle
  /\ ToolsIdle

NextLocations == store_location_memory

SpecLocations == InitLocations /\ [][NextLocations]_vars

\* ------------------------------------------------------------------
\* utils/local_observability.py: trace_operation
\* ------------------------------------------------------------------
\* observability.contexts lists the "with trace_operation(...)" blocks entered
\* so far, each with its TraceSpan object and whether the block is still
\* open; active_spans maps a span_id to the context whose span object it
\* holds; traces lists the contexts whose span was appended.  time is
\* time.time() in milliseconds.

\* the most contexts entered, and the last reading of the clock
MaxContexts == 3
MaxTime == 2

OperationNames == {"fetch_weather_data", "user_query"}

\* TraceSpan(name=..., start_time=...): span_id is name_<milliseconds>
TraceSpan(name, start_time) ==
  [name |-> name, start_time |-> start_time, end_time |-> NoneV,
   span_id |-> <<name, start_time>>, status |-> "in_progress"]

\* how a with block ends: it runs to its end, or it raises an Exception, or
\* it raises a BaseException that is not an Exception (KeyboardInterrupt,
\* asyncio.CancelledError)
Exits == {"return", "Exception", "BaseException"}

\* the span after the try statement of trace_operation
span_at_exit(span, exit, time) ==
  CASE exit = "return" -> [span EXCEPT !.status = "success", !.end_time = Num(time)]
    [] exit = "Exception" -> [span EXCEPT !.status = "error", !.end_time = Num(time)]
    [] exit = "BaseException" -> span

\* trace_operation up to its yield
EnterTraceOperation ==
  /\ Len(observability.contexts) < MaxContexts
  /\ \E operation_name \in OperationNames :
       LET span == TraceSpan(operation_name, observability.time)
           c == Len(observability.contexts) + 1
       IN observability' =
            [observability EXCEPT
               !.contexts = Append(@, [span |-> span, open |-> TRUE, exit |-> "none"]),
               !.active_spans = [id \in DOMAIN @ \cup {span.span_id} |->
                                   IF id = span.span_id THEN c ELSE @[id]]]
  /\ lastOp' = "trace_operation"
  /\ UNCHANGED <<state, agentVars, geocode, memory, calls, storage, banks, func_tools>>

\* trace_operation from its yield on: the with block has ended
ExitTraceOperation ==
  /\ \E c \in DOMAIN observability.contexts, exit \in Exits :
       /\ observability.contexts[c].open
       /\ LET span == span_at_exit(observability.contexts[c].span, exit, observability.time) IN
          observability' =
            [observability EXCEPT
               !.contexts[c] = [span |-> span, open |-> FALSE, exit |-> exit],
               !.traces = Append(@, c),
               !.active_spans = [id \in DOMAIN @ \ {span.span_id} |-> @[id]]]
  /\ lastOp' = "trace_operation_exit"
  /\ UNCHANGED <<state, agentVars, geocode, memory, calls, storage, banks, func_tools>>

\* time passes
Tick ==
  /\ observability.time < MaxTime
  /\ observability' = [observability EXCEPT !.time = @ + 1]
  /\ lastOp' = "time"
  /\ UNCHANGED <<state, agentVars, geocode, memory, calls, storage, banks, func_tools>>

InitObservability ==
  /\ state = EmptyState
  /\ lastOp = "none"
  /\ AgentsIdle
  /\ ToolsIdle

NextObservability == EnterTraceOperation \/ ExitTraceOperation \/ Tick

SpecObservability == InitObservability /\ [][NextObservability]_vars

\* ------------------------------------------------------------------
\* tools/func_tools.py: the module-level snapshot cache
\* ------------------------------------------------------------------
\* func_tools.last_snapshot is the global _last_snapshot.  For each session
\* that uses the two tools, func_tools.sessions records the snapshot of its
\* own most recent fetch_and_store_snapshot that it has not retrieved yet
\* (pending), what its last get_last_snapshot returned (got, Absent before
\* the first call) and what was pending for it when it asked (own).

Sessions == {"session_a", "session_b"}

\* the most tool calls of all sessions together
MaxSnapshotCalls == 4

LatitudeValues == {Num(0 - 12), Num(91), Text("south")}
LongitudeValues == {Num(0 - 77), Num(0 - 72)}

\* resp.json() of the forecast API, or the request failed
ForecastResponses ==
  {Dict([current |-> Dict([temperature_2m |-> Num(18), wind_speed_10m |-> Num(3)])]),
   Dict(<<>>),
   [t |-> "raise"]}

\* tools/web_access_tools.py: the snapshot, or a raise
fetch_env_snapshot_from_open_meteo(latitude, longitude, resp) ==
  IF ~isinstance(latitude, "num") \/ ~isinstance(longitude, "num") THEN [t |-> "raise"]
  ELSE IF ~(0 - 90 <= latitude.n /\ latitude.n <= 90) THEN [t |-> "raise"]
  ELSE IF ~(0 - 180 <= longitude.n /\ longitude.n <= 180) THEN [t |-> "raise"]
  ELSE IF resp.t = "raise" THEN [t |-> "raise"]
  ELSE LET current == dict_get_default(resp, "current", Dict(<<>>))
           hourly == dict_get_default(resp, "hourly", Dict(<<>>))
       IN Dict([location |-> Dict([latitude |-> latitude, longitude |-> longitude]),
                current |-> Dict([temperature_c |-> dict_get(current, "temperature_2m"),
                                  apparent_temperature_c |-> dict_get(current, "apparent_temperature"),
                                  relative_humidity_percent |-> dict_get(current, "relative_humidity_2m"),
                                  wind_speed_10m_ms |-> dict_get(current, "wind_speed_10m")]),
                hourly |-> Dict([pm10 |-> dict_get(hourly, "pm10"),
                                 pm2_5 |-> dict_get(hourly, "pm2_5")]),
                raw |-> resp])

SnapshotCalls == func_tools.calls

\* fetch_and_store_snapshot(latitude, longitude), called by one session
fetch_and_store_snapshot ==
  /\ SnapshotCalls < MaxSnapshotCalls
  /\ \E session \in Sessions, latitude \in LatitudeValues, longitude \in LongitudeValues,
        resp \in ForecastResponses :
       LET snapshot == fetch_env_snapshot_from_open_meteo(latitude, longitude, resp) IN
       func_tools' =
         IF snapshot.t = "raise"
         THEN [func_tools EXCEPT !.calls = @ + 1]
         ELSE [func_tools EXCEPT !.calls = @ + 1,
                                 !.last_snapshot = snapshot,
                                 !.sessions[session].pending = snapshot]
  /\ lastOp' = "fetch_and_store_snapshot"
  /\ UNCHANGED <<state, agentVars, geocode, memory, calls, storage, banks, observability>>

\* get_last_snapshot(), called by one session
get_last_snapshot ==
  /\ SnapshotCalls < MaxSnapshotCalls
  /\ \E session \in Sessions :
       LET snapshot == func_tools.last_snapshot IN
       func_tools' =
         [func_tools EXCEPT !.calls = @ + 1,
                            !.last_snapshot = NoneV,
                            !.sessions[session] =
                               [pending |-> NoneV, got |-> snapshot,
                                own |-> func_tools.sessions[session].pending]]
  /\ lastOp' = "get_last_snapshot"
  /\ UNCHANGED <<state, agentVars, geocode, memory, calls, storage, banks, observability>>

InitFuncTools ==
  /\ state = EmptyState
  /\ lastOp = "none"
  /\ AgentsIdle
  /\ geocode = NoGeocode
  /\ memory = EmptyMemoryBank
  /\ calls = <<>>
  /\ storage = NoStorage
  /\ banks = <<>>
  /\ observability = NoObservability
  /\ func_tools = [last_snapshot |-> NoneV, calls |-> 0,
                   sessions |-> [session \in Sessions |->
                                   [pending |-> NoneV, got |-> Absent, own |-> NoneV]]]

NextFuncTools == fetch_and_store_snapshot \/ get_last_snapshot

SpecFuncTools == InitFuncTools /\ [][NextFuncTools]_vars

\* ------------------------------------------------------------------
\* memory/memory_bank.py: the backing file
\* ------------------------------------------------------------------
\* storage is the file at storage_path: whether it exists, the JSON document
\* at its start (data, NoneV when there is none), the length of that document
\* and the size of the file; size > length means that the bytes of an older,
\* longer document follow the document.  persisted (the users whose record a
\* finished save has put into the file), writer (the process that finished
\* the last save), mutations and starts are kept for the properties and the
\* bounds.  banks[p] is the TheophrastusMemory of process p: importing the
\* module constructs it, which loads the file.

Processes == {"p1", "p2"}

\* the most mutating calls and the most process starts in all
MaxMutations == 3
MaxStarts == 3

\* dataclasses.asdict of the three record types
asdict_UserPreference(pref) ==
  Dict([user_id |-> Text(pref.user_id),
        preferred_activities |-> List(pref.preferred_activities),
        risk_tolerance |-> Text(pref.risk_tolerance),
        favorite_locations |-> List(pref.favorite_locations),
        preferred_weather |-> pref.preferred_weather])

asdict_QueryHistory(q) ==
  Dict([timestamp |-> Num(q.timestamp), location |-> Text(q.location),
        activity |-> q.activity, conditions |-> q.conditions,
        user_feedback |-> q.user_feedback])

asdict_LocationMemory(memo) ==
  Dict([name |-> Text(memo.name), coordinates |-> memo.coordinates,
        query_count |-> Num(memo.query_count),
        typical_conditions |-> memo.typical_conditions,
        notes |-> Text(memo.notes)])

\* UserPreference(**pref_data), QueryHistory(**q), LocationMemory(**loc_data)
UserPreference_of(pref_data) ==
  [user_id |-> pref_data.d.user_id.s[1],
   preferred_activities |-> pref_data.d.preferred_activities.l,
   risk_tolerance |-> pref_data.d.risk_tolerance.s[1],
   favorite_locations |-> pref_data.d.favorite_locations.l,
   preferred_weather |-> pref_data.d.preferred_weather]

QueryHistory_of(q) ==
  [timestamp |-> q.d.timestamp.n, location |-> q.d.location.s[1],
   activity |-> q.d.activity, conditions |-> q.d.conditions,
   user_feedback |-> q.d.user_feedback]

LocationMemory_of(loc_data) ==
  [name |-> loc_data.d.name.s[1], coordinates |-> loc_data.d.coordinates,
   query_count |-> loc_data.d.query_count.n,
   typical_conditions |-> loc_data.d.typical_conditions,
   notes |-> loc_data.d.notes.s[1]]

\* the dict that _save_to_disk builds from the three maps
data_of(bank) ==
  [preferences |-> [k \in DOMAIN bank.user_preferences |->
                      asdict_UserPreference(bank.user_preferences[k])],
   history |-> [k \in DOMAIN bank.query_history |->
                  List([i \in DOMAIN bank.query_history[k] |->
                          asdict_QueryHistory(bank.query_history[k][i])])],
   locations |-> [k \in DOMAIN bank.location_memories |->
                    asdict_LocationMemory(bank.location_memories[k])]]

\* the three maps that _load_from_disk builds from the parsed dict
bank_of(data) ==
  [user_preferences |-> [k \in DOMAIN data.preferences |->
                           UserPreference_of(data.preferences[k])],
   query_history |-> [k \in DOMAIN data.history |->
                        [i \in DOMAIN data.history[k].l |->
                           QueryHistory_of(data.history[k].l[i])]],
   location_memories |-> [k \in DOMAIN data.locations |->
                            LocationMemory_of(data.locations[k])]]

\* the length of the text json.dump writes, counted in records and list items
json_length(data) ==
  LET RECURSIVE total(_, _)
      total(m, S) == IF S = {} THEN 0
                     ELSE LET k == CHOOSE x \in S : TRUE IN
                          (CASE m = "preferences" ->
                                  1 + Len(data.preferences[k].d.preferred_activities.l)
                                    + Len(data.preferences[k].d.favorite_locations.l)
                                    + Cardinality(DOMAIN data.preferences[k].d.preferred_weather.d)
                             [] m = "history" -> 1 + Len(data.history[k].l)
                             [] m = "locations" ->
                                  1 + Cardinality(DOMAIN data.locations[k].d.typical_conditions.d))
                          + total(m, S \ {k})
  IN 1 + total("preferences", DOMAIN data.preferences)
       + total("history", DOMAIN data.history)
       + total("locations", DOMAIN data.locations)

\* json.load(f): the document, or a raise when the file holds no document or
\* bytes follow the document
json_load(file) ==
  IF file.data = NoneV \/ file.size # file.length THEN [t |-> "raise"]
  ELSE [t |-> "ok", data |-> file.data]

\* the maps of a bank constructed with the storage path
load_from_disk(file) ==
  IF ~file.exists THEN EmptyMemoryBank
  ELSE LET parsed == json_load(file) IN
       IF parsed.t = "raise" THEN EmptyMemoryBank ELSE bank_of(parsed.data)

\* the module is imported in a process: TheophrastusMemory is constructed
StartProcess ==
  /\ storage.starts < MaxStarts
  /\ \E p \in Processes :
       /\ banks[p].pc = "down"
       /\ banks' = [banks EXCEPT ![p] = [pc |-> "idle", bank |-> load_from_disk(storage),
                                         data |-> NoneV]]
  /\ storage' = [storage EXCEPT !.starts = @ + 1]
  /\ lastOp' = "TheophrastusMemoryBank"
  /\ UNCHANGED <<state, agentVars, geocode, memory, calls, observability, func_tools>>

\* a process that is not inside a call ends
ExitProcess ==
  /\ \E p \in Processes :
       /\ banks[p].pc = "idle"
       /\ banks' = [banks EXCEPT ![p] = [pc |-> "down", bank |-> EmptyMemoryBank,
                                         data |-> NoneV]]
  /\ lastOp' = "exit"
  /\ UNCHANGED <<state, agentVars, geocode, memory, calls, storage, observability, func_tools>>

\* _save_to_disk up to open(self.storage_path, 'w'), which empties the file,
\* after a mutation has left the process p with the bank
save_to_disk_open(p, bank) ==
  /\ banks' = [banks EXCEPT ![p] = [pc |-> "saving", bank |-> bank, data |-> data_of(bank)]]
  /\ storage' = [storage EXCEPT !.exists = TRUE, !.data = NoneV, !.length = 0, !.size = 0,
                                !.mutations = @ + 1]

StoredActivities == {NoneV, List(<<"hiking">>)}
StoredConditions == {NoneV, Dict([temp |-> Dyadic(18, 0)])}

\* store_user_preference of a bank with a storage path, up to the open
persistent_store_user_preference ==
  /\ storage.mutations < MaxMutations
  /\ \E p \in Processes, user_id \in Users, activities \in StoredActivities :
       /\ banks[p].pc = "idle"
       /\ \E bank \in user_preference_stored(banks[p].bank, user_id, activities,
                        [risk_tolerance |-> NoneV, favorite_location |-> NoneV,
                         preferred_weather |-> NoneV]) :
            save_to_disk_open(p, bank)
  /\ lastOp' = "store_user_preference"
  /\ UNCHANGED <<state, agentVars, geocode, memory, calls, observability, func_tools>>

\* add_query_history of a bank with a storage path, up to the open
persistent_add_query_history ==
  /\ storage.mutations < MaxMutations
  /\ \E p \in Processes, user_id \in HistoryUsers :
       /\ banks[p].pc = "idle"
       /\ save_to_disk_open(p, query_history_added(banks[p].bank, user_id, "Lima"))
  /\ lastOp' = "add_query_history"
  /\ UNCHANGED <<state, agentVars, geocode, memory, calls, observability, func_tools>>

\* store_location_memory of a bank with a storage path, up to the open
persistent_store_location_memory ==
  /\ storage.mutations < MaxMutations
  /\ \E p \in Processes, conditions \in StoredConditions :
       /\ banks[p].pc = "idle"
       /\ save_to_disk_open(p,
            location_memory_stored(banks[p].bank, "Lima",
              Dict([latitude |-> Num(Deg(-12)), longitude |-> Num(Deg(-77))]),
              conditions, NoneV).bank)
  /\ lastOp' = "store_location_memory"
  /\ UNCHANGED <<state, agentVars, geocode, memory, calls, observability, func_tools>>

\* _save_to_disk from json.dump to the end of the with block: the buffered
\* text is written at the start of the file, over what is there
save_to_disk_dump ==
  /\ \E p \in Processes :
       /\ banks[p].pc = "saving"
       /\ LET n == json_length(banks[p].data)
              size == IF storage.size > n THEN storage.size ELSE n
          IN storage' =
               [storage EXCEPT
                  !.data = banks[p].data, !.length = n, !.size = size, !.writer = p,
                  !.persisted = IF size = n THEN @ \cup DOMAIN banks[p].data.preferences
                                ELSE @]
       /\ banks' = [banks EXCEPT ![p].pc = "idle", ![p].data = NoneV]
  /\ lastOp' = "_save_to_disk"
  /\ UNCHANGED <<state, agentVars, geocode, memory, calls, observability, func_tools>>

InitStorage ==
  /\ state = EmptyState
  /\ lastOp = "none"
  /\ AgentsIdle
  /\ geocode = NoGeocode
  /\ memory = EmptyMemoryBank
  /\ calls = <<>>
  /\ storage = NoStorage
  /\ banks = [p \in Processes |-> [pc |-> "down", bank |-> EmptyMemoryBank, data |-> NoneV]]
  /\ observability = NoObservability
  /\ func_tools = NoFuncTools

NextStorage ==
  \/ StartProcess
  \/ ExitProcess
  \/ persistent_store_user_preference
  \/ persistent_add_query_history
  \/ persistent_store_location_memory
  \/ save_to_disk_dump

SpecStorage == InitStorage /\ [][NextStorage]_vars

\* ================================================================ properties
LocationCheckerRan == lastOp \in {"EnvLocationGeoValidationChecker", "location_geo_validation_agent"}

\* A snapshot dict with a non-null reading among the four fields of 'current'.
HasReading(v) ==
  /\ v.t = "dict"
  /\ "current" \in DOMAIN v.d
  /\ v.d["current"].t = "dict"
  /\ \E f \in SnapshotFields :
       f \in DOMAIN v.d["current"].d /\ v.d["current"].d[f].t # "none"

SnapshotUsable(v) ==
  \/ HasReading(v)
  \/ v.t = "list" /\ \E i \in 1..Len(v.l) : HasReading(v.l[i])

\* A risk report (parsed when it is JSON text) with a recognised overall_risk.
RiskAcceptable(v) ==
  LET r == IF v.t = "str" /\ json_loads(v.s).ok THEN json_loads(v.s).v ELSE v IN
  /\ r.t = "dict"
  /\ "overall_risk" \in DOMAIN r.d
  /\ r.d["overall_risk"].t = "str"
  /\ r.d["overall_risk"].s \in {<<"low">>, <<"moderate">>, <<"medium">>, <<"high">>, <<"unknown">>}

\* C1: in every invocation of a Retry Loop each wrapped stage (each sub-agent)
\* has been executed at most max_iterations times.
C1_StageRunsBounded ==
  status # "idle" =>
    \A i \in DOMAIN runs : runs[i] <= LoopAgent(loop).max_iterations

\* The data loop ran its stage max_iterations times and the checker failed
\* every time.
C1_Witness ==
  /\ loop = "robust_env_data_agent"
  /\ status = "exhausted"
  /\ runs[1] = config_max_iterations
  /\ ~event.escalate

\* C2: a passing checker stops the loop and the stage is not run again; a
\* failing checker with iterations left is followed by the stage; the data
\* loop stops after the first iteration in which env_snapshot (a dict or a
\* list of dicts) is valid.
C2_LoopSteps ==
  [][/\ (status = "escalated" => lastOp' \in Loops /\ \A i \in DOMAIN runs' : runs'[i] = 0)
     /\ (/\ status = "running"
         /\ lastOp' \in {"env_snapshot_validation_checker", "location_geo_validation_agent"}
         => /\ event'.escalate => status' = "escalated"
            /\ ~event'.escalate /\ times_looped' < LoopAgent(loop).max_iterations
                 => status' = "running" /\ idx' = 1
            /\ ~event'.escalate /\ times_looped' >= LoopAgent(loop).max_iterations
                 => status' = "exhausted")
     /\ (status = "running" /\ lastOp' = "env_snapshot_validation_checker"
           /\ SnapshotUsable(given')
         => status' = "escalated")]_vars

\* C3 as stated: after a loop has exhausted its iterations, nothing was raised
\* and the output key holds what the last stage execution wrote.
C3_ExhaustedKeepsStageValue ==
  status = "exhausted" =>
    /\ ~event.raised
    /\ state[output_key(loop)] = lastWrite

\* C3 (amended): an exhausted loop has not raised; the data and risk loops'
\* output key holds what the last stage execution wrote, and the location
\* loop's env_location_options holds the empty list its checker's cleaning left.
C3_ExhaustedValue ==
  status = "exhausted" =>
    /\ ~event.raised
    /\ loop # "robust_env_location_agent" => state[output_key(loop)] = lastWrite
    /\ loop = "robust_env_location_agent" => state["env_location_options"] = List(<<>>)

\* The data loop gave up on a snapshot that never became valid, and the
\* snapshot is still in the state.
C3_Witness ==
  /\ loop = "robust_env_data_agent"
  /\ status = "exhausted"
  /\ times_looped = config_max_iterations
  /\ state["env_snapshot"] = Snap(Dict([temperature_c |-> NoneV]))
  /\ lastWrite = state["env_snapshot"]

\* C4: the Snapshot Validator escalates iff env_snapshot is a dict with a
\* non-null reading, or a list with at least one such dict.
C4_SnapshotVerdict ==
  lastOp = "EnvSnapshotValidationChecker" => (event.escalate <=> SnapshotUsable(given))

\* C5: the Risk Validator signals escalate iff env_risk_report (parsed when a
\* JSON string) is a dict whose overall_risk is a recognised label; everything
\* else is a fail, not an exception.
C5_RiskVerdict ==
  lastOp = "EnvRiskValidationChecker_utils" =>
    /\ ~event.raised
    /\ event.escalate <=> RiskAcceptable(given)

\* C6: a run of the Snapshot Validator or of the Risk Validator leaves every
\* key of the session state as it was.
C6_CheckersReadOnly ==
  [][lastOp' \in {"EnvSnapshotValidationChecker", "EnvSnapshotValidationChecker_utils",
                  "EnvRiskValidationChecker", "EnvRiskValidationChecker_utils"}
       => state' = state]_vars

\* The utils checker parsed a JSON-string snapshot, passed it, and the state
\* still holds the string.
C6_Witness ==
  /\ lastOp = "EnvSnapshotValidationChecker_utils"
  /\ event.escalate
  /\ state["env_snapshot"] = Text("snap_valid")

\* Nothing to clean: absent, None, or an empty list, string or dict.
NothingToClean(v) ==
  \/ v.t \in {"absent", "none"}
  \/ v.t = "list" /\ v.l = <<>>
  \/ v.t = "str" /\ v.s = <<>>
  \/ v.t = "dict" /\ DOMAIN v.d = {}

ValidEntry(e) ==
  /\ e.t = "dict"
  /\ {"latitude", "longitude"} \subseteq DOMAIN e.d
  /\ e.d["latitude"].t # "none" /\ e.d["longitude"].t # "none"
  /\ float(e.d["latitude"]).ok /\ float(e.d["longitude"]).ok
  /\ float(e.d["latitude"]).v.t = "num" /\ float(e.d["longitude"]).v.t = "num"
  /\ float(e.d["latitude"]).v.n >= -9000000 /\ float(e.d["latitude"]).v.n <= 9000000
  /\ float(e.d["longitude"]).v.n >= -18000000 /\ float(e.d["longitude"]).v.n <= 18000000

LatOf(e) == float(e.d["latitude"]).v.n
LonOf(e) == float(e.d["longitude"]).v.n

\* Coordinates rounded to four decimal places.
Rounded(lat, lon) == <<((lat + 5) \div 10) * 10, ((lon + 5) \div 10) * 10>>

CleanedList == state["env_location_options"].l

Cleaned == LocationCheckerRan /\ ~NothingToClean(given)

GivenList == IF given.t = "list" THEN given.l ELSE <<>>

KeptPositions ==
  {i \in 1..Len(GivenList) :
     /\ ValidEntry(GivenList[i])
     /\ \A h \in 1..(i - 1) :
          ValidEntry(GivenList[h]) =>
            Rounded(LatOf(GivenList[h]), LonOf(GivenList[h]))
              # Rounded(LatOf(GivenList[i]), LonOf(GivenList[i]))}

\* C9: no two cleaned entries have equal coordinates after rounding to four
\* decimals; the entry kept for a rounded coordinate is the first valid one in
\* input order, and the kept entries are in input order.
C9_DedupFirstInOrder ==
  Cleaned =>
    /\ \A a, b \in 1..Len(CleanedList) :
         a # b =>
           Rounded(CleanedList[a].d["latitude"].n, CleanedList[a].d["longitude"].n)
             # Rounded(CleanedList[b].d["latitude"].n, CleanedList[b].d["longitude"].n)
    /\ Len(CleanedList) = Cardinality(KeptPositions)
    /\ \A i \in KeptPositions :
         LET n == Cardinality({h \in KeptPositions : h <= i}) IN
         /\ CleanedList[n].d["latitude"].n = LatOf(GivenList[i])
         /\ CleanedList[n].d["longitude"].n = LonOf(GivenList[i])
         /\ "name" \in DOMAIN GivenList[i].d /\ truthy(GivenList[i].d["name"])
              => CleanedList[n].d["name"] = GivenList[i].d["name"]

\* Two entries whose latitudes differ only in the fifth decimal collapsed to
\* the first one.
C9_Witness ==
  /\ lastOp = "EnvLocationGeoValidationChecker"
  /\ given = List(<<Loc(Text("B"), Num(1000000), Num(1000000)),
                    Loc(Text("A"), Num(1000004), Num(1000000))>>)
  /\ Len(CleanedList) = 1
  /\ CleanedList[1].d["name"] = Text("B")
  /\ CleanedList[1].d["latitude"] = Num(1000000)

\* C10: a second run of the Location Validator on the state the first run
\* left changes nothing in env_location_options.
C10_CleaningIdempotent ==
  [][lastOp = "EnvLocationGeoValidationChecker" /\ lastOp' = "EnvLocationGeoValidationChecker"
       => state'["env_location_options"] = state["env_location_options"]]_vars

\* The checker ran on a cleaned list of two entries and left the same list.
C10_Witness ==
  /\ lastOp = "EnvLocationGeoValidationChecker"
  /\ given = state["env_location_options"]
  /\ given.t = "list"
  /\ Len(given.l) = 2
  /\ given.l[1].d["name"] = Text("A")

\* The turn's loop has stopped: a checker escalated, the iterations ran out,
\* or a sub-agent raised.
TurnEnded == status \in {"escalated", "exhausted", "raised"}

\* C11: a turn in which the Risk Classification stage ran never ends with a
\* risk report present and no advice unless the Report Writer ran after the
\* risk stage, whatever the Risk Validator's verdict.
C11_ReportWriterFollowsRisk ==
  /\ TurnEnded
  /\ loop = "robust_env_risk_agent"
  /\ truthy(state_get(state, "env_risk_report"))
  /\ ~truthy(state_get(state, "env_advice_markdown"))
  => lastOp = "aurora_env_advice_writer"

PostPipelineCallbackRan == lastOp \in {"envi_root_callback", "Theophrastus_root_callback"}

\* env_advice_markdown holds a text of more than 50 characters.
SubstantialAdvice ==
  /\ state["env_advice_markdown"].t = "str"
  /\ len(state["env_advice_markdown"].s) > 50

FenceTokens == {"fence", "fence_json", "fence_markdown"}

\* The words of a text: not white space, not a fence, not the tag a fence leaves.
Words(s) == SelectSeq(s, LAMBDA tok : tok \notin Whitespace \cup FenceTokens \cup {"json", "markdown"})

\* C13: when env_advice_markdown is substantial, the Post-Pipeline Callback
\* returns the advice text without its code fences, whatever the other state
\* keys and bookkeeping flags hold.
C13_AdviceWins ==
  PostPipelineCallbackRan /\ SubstantialAdvice =>
    /\ reply.kind = "text"
    /\ \A i \in 1..Len(reply.text) : reply.text[i] \notin FenceTokens
    /\ Words(reply.text) = Words(state["env_advice_markdown"].s)

NonEmpty(v) == truthy(IF v.t = "absent" THEN NoneV ELSE v)

IsRiskSummary(r) == r.kind = "text" /\ r.text # <<>> /\ r.text[1] = "## Weather & Safety Assessment"

IsWeatherSummary(r) ==
  /\ r.kind = "text" /\ r.text # <<>>
  /\ r.text[1] \in {"Current weather across your locations:", "Weather data not available."}

IsLocationList(r) ==
  r.kind = "text" /\ r.text # <<>> /\ r.text[1] = "Here are some options you might consider:"

\* C14: without substantial advice the Post-Pipeline Callback answers by
\* first match: a risk summary when a risk report is present, else a weather
\* summary when a snapshot is present, else a bulleted list when location
\* candidates are present, else nothing.
C14_FallbackLadder ==
  PostPipelineCallbackRan /\ ~SubstantialAdvice =>
    IF state["env_risk_report"].t = "dict" /\ NonEmpty(state["env_risk_report"])
    THEN IsRiskSummary(reply)
    ELSE IF NonEmpty(state["env_risk_report"]) THEN IsRiskSummary(reply) \/ IsWeatherSummary(reply)
                                                      \/ IsLocationList(reply) \/ reply.kind = "none"
    ELSE IF NonEmpty(state["env_snapshot"]) THEN IsWeatherSummary(reply)
    ELSE IF state["env_location_options"].t = "list" /\ NonEmpty(state["env_location_options"])
    THEN IsLocationList(reply)
    ELSE reply.kind = "none"

\* C15: with the advice absent and a non-empty risk report, snapshot or
\* location list in the state, the Post-Pipeline Callback returns a non-empty
\* text; it returns nothing only when none of the four keys holds anything.
C15_DegradedReply ==
  PostPipelineCallbackRan =>
    /\ (/\ ~NonEmpty(state["env_advice_markdown"])
        /\ \E k \in {"env_risk_report", "env_snapshot", "env_location_options"} : NonEmpty(state[k])
        => reply.kind = "text" /\ reply.text # <<>>)
    /\ (reply.kind = "none" => \A k \in StateKeys : ~NonEmpty(state[k]))

\* C16: the text the Post-Pipeline Callback returns never parses as JSON and
\* never begins with '{' or '[' after trimming, also when env_advice_markdown
\* holds JSON text.
C16_NeverJson ==
  PostPipelineCallbackRan /\ reply.kind = "text" =>
    /\ ~json_loads(reply.text).ok
    /\ ~begins_with_brace(reply.text)

\* ---- stage callbacks
\* The JSON value a stage's text output carries, with or without a markdown
\* fence around it.
JsonIn(s) ==
  LET body == SelectSeq(s, LAMBDA tok : tok \notin Whitespace \cup {"fence", "fence_json"}) IN
  IF Len(body) = 1 /\ body[1] \in DOMAIN JsonDoc
  THEN [ok |-> TRUE, v |-> JsonDoc[body[1]]]
  ELSE [ok |-> FALSE, v |-> NoneV]

\* C17: after a stage's callback ran on a string output, JSON of the expected
\* shape has been replaced by the parsed value, a wrapped {"locations": [...]}
\* by its array, and a string that does not parse is still under the key and
\* makes the validator that runs next fail.
C17_StageOutputParsed ==
  /\ lastOp \in {"atlas_env_location_discovery_agent", "atlas_env_location_geocode_agent"}
       /\ given.t = "str"
     => LET p == JsonIn(given.s) IN
        /\ p.ok /\ p.v.t = "list" /\ p.v.l # <<>> => state["env_location_options"] = p.v
        /\ p.ok /\ p.v.t = "dict" /\ "locations" \in DOMAIN p.v.d /\ p.v.d["locations"].t = "list"
             => state["env_location_options"] = p.v.d["locations"]
        /\ ~p.ok => state["env_location_options"] = given
  /\ lastOp = "aether_env_risk_agent" /\ given.t = "str"
     => LET p == JsonIn(given.s) IN
        /\ p.ok /\ p.v.t = "dict" => state["env_risk_report"] = p.v
        /\ ~p.ok => state["env_risk_report"] = given
  /\ lastOp \in {"location_geo_validation_agent", "env_risk_validation_checker"}
       /\ given.t = "str" /\ ~JsonIn(given.s).ok /\ given.s # <<>>
     => ~event.escalate /\ ~event.passed

\* ---------------------------------------------------------------- C18
\* how a queried name was derived from the place name: 0 the name itself,
\* 1 its suffix stripped, 2 the region hint appended, 3 a truncation (leading
\* words, or leading comma-separated parts)
is_truncation(name, place_name) ==
  /\ name # <<>>
  /\ Len(name) < Len(place_name)
  /\ \A k \in 1..Len(name) : name[k].w = place_name[k].w /\ name[k].cap = place_name[k].cap

variant_kind(name, place_name, region_hint) ==
  LET stripped == without_suffix(place_name)
      bases == <<place_name>> \o stripped
  IN IF name = place_name THEN 0
     ELSE IF stripped # <<>> /\ name = stripped[1] THEN 1
     ELSE IF region_hint # <<>> /\ \E k \in DOMAIN bases : name = with_hint(bases[k], region_hint)
          THEN 2
     ELSE IF is_truncation(name, place_name) THEN 3
     ELSE 4

GeocodeReturned == geocode.pc = "returned"

NoneYielded(answers) == \A k \in DOMAIN answers : answers[k].answer # "results"

\* The variants are asked in order (suffix stripped, region hint appended,
\* truncated) and each distinct name at most once; the first max_results
\* results of the first name that has any are returned; an empty result list
\* is returned only when every variant was asked and none had results, and a
\* timeout or failed request is reported in the returned dict, not raised.
GeocodeVariantsInOrder ==
  geocode.pc # "idle" =>
    LET q == geocode.queried
        a == geocode.responses
        kind(k) == variant_kind(q[k].name, geocode.place_name, geocode.region_hint)
    IN /\ Len(q) = Len(a)
       /\ \A j, k \in DOMAIN q : j < k => lower(q[j].name) # lower(q[k].name)
       /\ \A k \in DOMAIN q : kind(k) <= 3
       /\ \A j, k \in DOMAIN q : j < k => kind(j) <= kind(k)
       /\ geocode.pc = "calling" => NoneYielded(a)
       /\ (GeocodeReturned /\ geocode.out.results # <<>>) =>
            /\ a[Len(a)].answer = "results"
            /\ NoneYielded(SubSeq(a, 1, Len(a) - 1))
            /\ geocode.out.query = q[Len(q)].name
            /\ Len(geocode.out.results) = Min(geocode.max_results, a[Len(a)].n)
            /\ \A k \in DOMAIN geocode.out.results :
                 geocode.out.results[k] = geocode_result(ApiPlace(k))
       /\ (GeocodeReturned /\ geocode.out.results = <<>>) =>
            /\ NoneYielded(a)
            /\ [k \in DOMAIN q |-> q[k].name] = geocode.unique_candidates
            /\ \A k \in DOMAIN geocode.unique_candidates :
                 \/ k = 1
                 \/ variant_kind(geocode.unique_candidates[k], geocode.place_name,
                                 geocode.region_hint) \in 1..3
            /\ geocode.out.error \in {"none", "timeout", "request_failed"}
            /\ geocode.out.error # "none" <=>
                 \E k \in DOMAIN a : a[k].answer \in {"timeout", "request_failed"}

C18_WitnessGaveUp ==
  /\ GeocodeReturned
  /\ Len(geocode.queried) = 5
  /\ geocode.out.results = <<>>
  /\ geocode.out.error = "timeout"

\* ---------------------------------------------------------------- C19
\* every activity passed to store_user_preference for the user so far
ActivitiesPassed(user_id) ==
  UNION {Range(a.l) : a \in {c \in Range(calls_of("store_user_preference", user_id)) :
                               c.t = "list"}}

\* C19: after any calls of store_user_preference for a user,
\* preferred_activities holds every activity passed in those calls exactly
\* once and nothing else; a later call never replaces or removes an earlier
\* activity.
C19_ActivitiesUnion ==
  \A user_id \in DOMAIN memory.user_preferences :
    LET preferred_activities == memory.user_preferences[user_id].preferred_activities IN
    /\ Range(preferred_activities) = ActivitiesPassed(user_id)
    /\ Len(preferred_activities) = Cardinality(Range(preferred_activities))

\* hiking and cycling were stored first and swimming in a later call
C19_Witness ==
  /\ lastOp = "store_user_preference"
  /\ calls_of("store_user_preference", "user_test_01")
       = <<List(<<"hiking", "cycling">>), List(<<"swimming">>)>>
  /\ Range(memory.user_preferences["user_test_01"].preferred_activities)
       = {"hiking", "cycling", "swimming"}

\* ---------------------------------------------------------------- C20
\* the n most recent of the entries appended, in the order of their appends
MostRecent(appended, n) ==
  [k \in 1..(IF Len(appended) > n THEN n ELSE Len(appended)) |->
     appended[k + (IF Len(appended) > n THEN Len(appended) - n ELSE 0)]]

SessionHistory ==
  IF state["user:query_history"].t = "absent" THEN <<>> ELSE state["user:query_history"].l

\* C20: after any appends to a user's query history, the stored history is
\* the most recent N entries appended, in append order: 100 in the memory
\* bank, 20 in the session-state tool. It is never longer than N and only
\* the oldest entries are dropped.
C20_HistoryMostRecent ==
  /\ "user:query_history" \in DOMAIN state =>
       /\ SessionHistory = MostRecent(calls_of("add_to_query_history", "user:query_history"), 20)
       /\ Len(SessionHistory) <= 20
  /\ \A user_id \in DOMAIN memory.query_history :
       /\ memory.query_history[user_id] = MostRecent(calls_of("add_query_history", user_id), 100)
       /\ Len(memory.query_history[user_id]) <= 100

\* both histories are full and have dropped their oldest entries
C20_Witness ==
  /\ "user:query_history" \in DOMAIN state
  /\ Len(calls_of("add_to_query_history", "user:query_history")) > 20
  /\ Len(SessionHistory) = 20
  /\ dict_get(SessionHistory[1], "timestamp").n > 1
  /\ \E user_id \in DOMAIN memory.query_history :
       /\ Len(calls_of("add_query_history", user_id)) > 100
       /\ Len(memory.query_history[user_id]) = 100
       /\ memory.query_history[user_id][1].timestamp > 1

\* ---------------------------------------------------------------- C24
\* what the calls of store_location_memory for the name observed of the key;
\* a call that raised recorded none of its conditions (only "temp", the
\* first key, is ever a text)
Observations(name, key) ==
  LET log == calls_of("store_location_memory", name)
      RECURSIVE obs(_)
      obs(k) == IF k = 0 THEN <<>>
                ELSE IF /\ log[k].conditions.t = "dict"
                        /\ key \in DOMAIN log[k].conditions.d
                        /\ ~log[k].raised
                THEN Append(obs(k - 1), log[k].conditions.d[key])
                ELSE obs(k - 1)
  IN obs(Len(log))

\* v1 + v2 + 2 v3 + 4 v4 ..., which is 2^(k-1) times the blend of v1 .. vk
RECURSIVE BlendTimes(_)
BlendTimes(vs) ==
  IF Len(vs) = 1 THEN vs[1].n
  ELSE BlendTimes(SubSeq(vs, 1, Len(vs) - 1))
         + (IF Len(vs) = 2 THEN 1 ELSE 2^(Len(vs) - 2)) * vs[Len(vs)].n

RECURSIVE Sum(_)
Sum(vs) == IF vs = <<>> THEN 0 ELSE vs[1].n + Sum(Tail(vs))

AllNumeric(vs) == \A k \in DOMAIN vs : vs[k].t = "num"

\* a call of store_location_memory with a numeric observation of a key that
\* the record of the name already holds
NumericObservation(name, key) ==
  /\ lastOp' = "store_location_memory"
  /\ Len(calls_of("store_location_memory", name)') = Len(calls_of("store_location_memory", name)) + 1
  /\ name \in DOMAIN memory.location_memories
  /\ key \in DOMAIN memory.location_memories[name].typical_conditions.d
  /\ LET log == calls_of("store_location_memory", name)' IN
       /\ log[Len(log)].conditions.t = "dict"
       /\ key \in DOMAIN log[Len(log)].conditions.d
       /\ log[Len(log)].conditions.d[key].t = "num"

Recorded(name, key) == memory.location_memories[name].typical_conditions.d[key]

Observed(name, key) ==
  LET log == calls_of("store_location_memory", name) IN log[Len(log)].conditions.d[key]

LocationRecord(name) ==
  IF name \in DOMAIN memory.location_memories THEN memory.location_memories[name] ELSE NoneV

\* C28: a location record keeps the coordinates of the first
\* store_location_memory call for its name, its query_count is the number of
\* calls for the name, and a call for one name leaves the records of the
\* other names as they were.
C28_CoordinatesKept ==
  /\ [](\A name \in LocationNames :
          LET log == calls_of("store_location_memory", name) IN
          IF log = <<>> THEN name \notin DOMAIN memory.location_memories
          ELSE /\ name \in DOMAIN memory.location_memories
               /\ memory.location_memories[name].coordinates = log[1].coordinates
               /\ memory.location_memories[name].query_count = Len(log))
  /\ [][\A name \in LocationNames :
          calls_of("store_location_memory", name)' = calls_of("store_location_memory", name)
            => LocationRecord(name)' = LocationRecord(name)]_vars

\* Lima was stored a second time with other coordinates, after Cusco
C28_Witness ==
  /\ lastOp = "store_location_memory"
  /\ "Cusco" \in DOMAIN memory.location_memories
  /\ LET log == calls_of("store_location_memory", "Lima") IN
     /\ Len(log) = 2
     /\ log[2].coordinates # log[1].coordinates
     /\ memory.location_memories["Lima"].query_count = 2

\* ---------------------------------------------------------------- C26
\* C26: running the Location Validator again on the state it has just
\* produced gives the same verdict as the run before.
C26_VerdictStable ==
  [][(lastOp = "EnvLocationGeoValidationChecker" /\ lastOp' = "EnvLocationGeoValidationChecker")
       => event'.escalate = event.escalate]_vars

\* ---------------------------------------------------------------- C25
\* the stage that writes the key has written it, and no stage has written
\* the other key since
WrittenSince(key, other) ==
  \E i \in DOMAIN written :
    /\ written[i] = key
    /\ \A j \in DOMAIN written : written[j] = other => j < i

\* C25: when the Post-Pipeline Callback answers with env_advice_markdown, the
\* Report Writer has written that advice after the most recent write of
\* env_risk_report.
C25_AdviceNotStale ==
  (PostPipelineCallbackRan /\ reply.kind = "text" /\ SubstantialAdvice)
    => WrittenSince("env_advice_markdown", "env_risk_report")

\* ---------------------------------------------------------------- C27
LastSearch == calls_of("search_query_history", "user:query_history")[1]

\* C27: search_query_history never raises: it returns status "success" or
\* "empty", whatever the history and the search term, and leaves the history
\* as it was.
C27_SearchNeverFails ==
  /\ [](lastOp = "search_query_history" =>
          ~LastSearch.result.raised /\ LastSearch.result.status \in {"success", "empty"})
  /\ [][lastOp' = "search_query_history" => state' = state]_vars

\* ---------------------------------------------------------------- C29
\* how often the span of the context is in traces
TimesTraced(c) == Cardinality({k \in DOMAIN observability.traces : observability.traces[k] = c})

\* the span object of the context is a value of active_spans
InActiveSpans(c) == \E id \in DOMAIN observability.active_spans : observability.active_spans[id] = c

\* C29: once a trace_operation context has exited, normally or by an
\* exception, its span is in traces exactly once, with end_time set and status
\* "success" after a normal exit and "error" after an exception, and it is not
\* in active_spans; when every context has exited, active_spans is empty.
C29_SpanClosed ==
  /\ \A c \in DOMAIN observability.contexts :
       ~observability.contexts[c].open =>
         /\ TimesTraced(c) = 1
         /\ observability.contexts[c].span.end_time # NoneV
         /\ observability.contexts[c].span.status
              = IF observability.contexts[c].exit = "return" THEN "success" ELSE "error"
         /\ ~InActiveSpans(c)
  /\ (\A c \in DOMAIN observability.contexts : ~observability.contexts[c].open)
       => DOMAIN observability.active_spans = {}

\* ---------------------------------------------------------------- C30
\* C30: get_last_snapshot returns to a session the snapshot stored by that
\* session's own most recent fetch_and_store_snapshot and clears it, so that a
\* get with nothing fetched since returns None; with two sessions interleaved,
\* no session receives the other's snapshot, or None when it has fetched one.
C30_OwnSnapshot ==
  \A session \in Sessions :
    func_tools.sessions[session].got # Absent =>
      func_tools.sessions[session].got = func_tools.sessions[session].own

\* ---------------------------------------------------------------- C23
\* no process is inside _save_to_disk
Quiescent == \A p \in Processes : banks[p].pc # "saving"

\* C23: the saves of two writers sharing the file are serialized: when no save
\* is in progress, the file is exactly the complete document of the writer
\* that wrote last, never an empty file or a document followed by the rest of
\* another one.
C23_WritesSerialized ==
  (Quiescent /\ storage.exists) =>
    /\ storage.data # NoneV
    /\ storage.size = storage.length

\* ---------------------------------------------------------------- C21
\* the users with a preference record in the file, as a load finds them
InFile == DOMAIN load_from_disk(storage).user_preferences

\* C21: a store operation never removes a preference record from the bank of
\* a running process, and the record of a user that a finished save has
\* written is found in the file whenever no save is in progress, after any
\* later mutations and restarts.
C21_PreferenceKept ==
  /\ [](Quiescent => storage.persisted \subseteq InFile)
  /\ [][\A p \in Processes :
          (banks[p].pc # "down" /\ banks'[p].pc # "down") =>
            DOMAIN banks[p].bank.user_preferences
              \subseteq DOMAIN banks'[p].bank.user_preferences]_vars

\* ---------------------------------------------------------------- C22
\* C22: when a mutating operation of a bank with a storage path has completed,
\* the file holds the three maps of that bank as they are in memory, and
\* loading it into a fresh bank gives the same three maps.
C22_FileMatchesMemory ==
  lastOp = "_save_to_disk" =>
    /\ storage.data = data_of(banks[storage.writer].bank)
    /\ load_from_disk(storage) = banks[storage.writer].bank

====
